---- MODULE Spec2Model ----
(***************************************************************************)
(* A model of the review pipeline of ai-code-review-git-hook:              *)
(*   - change triage        (git/analyzer.py, ChangeAnalyzer)              *)
(*   - response parsing     (review/engine.py, _parse_review_response)     *)
(*   - the review engine    (review/engine.py, ReviewEngine)               *)
(*   - rule resolution      (config/manager.py, review/rules.py)           *)
(*   - the model client     (bedrock/client.py, BedrockClient)             *)
(*   - the cost estimate    (bedrock/models.py, bedrock/client.py)         *)
(*                                                                         *)
(* Filenames and glob patterns are tuples of one-character strings, so     *)
(* that fnmatch and Path.suffix are computed character by character.       *)
(* A Python dict is a sequence of entries in insertion order.              *)
(***************************************************************************)
EXTENDS Integers, Sequences, FiniteSets, TLC

VARIABLES
    changes,        \* the change set handed to analyze_changes / review_changes
    git_config,     \* ChangeAnalyzer.git_config
    analysis,       \* the AnalysisResult returned by analyze_changes, or NoResult
    severity_threshold,   \* ReviewEngine.severity_threshold
    max_issues_per_file,  \* ReviewEngine.max_issues_per_file
    response,       \* the BedrockResponse handed to _parse_review_response
    parsed,         \* the FileReviewResult it returned, or NoResult
    review_config,  \* config 'review': enabled_rules, rule_templates, batch_size
    perf_config,    \* config 'performance': parallel_processing, max_workers
    template_store, \* template storage: what a template name holds on disk
    model_behaviour,  \* per filename, what invoke_model does for its prompt
    template_cache, \* RuleProcessor._template_cache
    pc,             \* where review_changes is
    file_results,   \* file_results of _review_files_parallel / _sequential
    futures,        \* the batches submitted to the ThreadPoolExecutor
    invoked,        \* the filenames invoke_model was called for
    result,         \* the ReviewResult returned by review_changes, or NoResult
    retry_config,   \* BedrockClient.retry_attempts and retry_delay
    attempt,        \* the loop variable of invoke_model
    attempt_log,    \* what each call of _invoke_model_once returned or raised
    sleeps,         \* the arguments of the time.sleep calls of invoke_model
    invoke_state,   \* where invoke_model is: trying, returned or raised
    invoke_outcome, \* what invoke_model returned or raised, or NoResult
    rules_request,  \* the arguments of the latest load_rules_for_file call
    resolved,       \* what that call returned or raised, and its all_rules
    rules_calls,    \* the number of load_rules_for_file calls made
    client_model,   \* BedrockClient.model_id
    response_body,  \* the response body handed to _parse_response
    model_response, \* the BedrockResponse it returned, or what it raised
    usage_a,        \* token counts of one invocation
    usage_b,        \* token counts of another invocation
    estimates       \* the cost estimates of both and of their sum

triageVars == <<git_config, analysis>>
parseVars == <<response, parsed>>
reviewConfigVars == <<severity_threshold, max_issues_per_file>>
engineEnvVars == <<review_config, perf_config, template_store, model_behaviour>>
engineVars == <<template_cache, pc, file_results, futures, invoked, result>>

clientVars == <<retry_config, attempt, attempt_log, sleeps, invoke_state, invoke_outcome>>

rulesVars == <<rules_request, resolved, rules_calls>>

costVars == <<client_model, response_body, model_response, usage_a, usage_b, estimates>>

vars == <<changes, triageVars, reviewConfigVars, parseVars, engineEnvVars, engineVars,
          clientVars, rulesVars, costVars>>

NoResult == [none |-> TRUE]

----------------------------------------------------------------------------
(* Bounds of the model *)

\* longest change set handed to analyze_changes
MaxChanges == 3

\* longest `issues` array of a model response
MaxIssues == 3

\* longest change set handed to review_changes
MaxFiles == 3

\* largest configured batch_size
MaxBatchSize == 2

\* largest configured max_workers
MaxWorkers == 2

\* largest configured retry_attempts
MaxRetries == 3

\* largest configured retry_delay, in the unit of the smallest one
MaxDelay == 2

\* longest list of template names handed to load_rules_for_file
MaxTemplates == 2

\* most load_rules_for_file calls on one RuleProcessor
MaxCalls == 2

\* largest token count a response body reports
MaxTokens == 2

\* longest text of a response body, in characters
MaxContent == 3

----------------------------------------------------------------------------
(* Generic helpers *)

Min(a, b) == IF a < b THEN a ELSE b

Range(s) == {s[i] : i \in 1..Len(s)}

\* s[:n] of Python, for n >= 0
Take(s, n) == SubSeq(s, 1, Min(n, Len(s)))

\* s[n:] of Python, for n >= 0
Drop(s, n) == SubSeq(s, Min(n, Len(s)) + 1, Len(s))

\* all sequences without repetition over S, of length at most n
RECURSIVE DistinctSeqs(_, _)
DistinctSeqs(S, n) ==
    IF n = 0 THEN {<<>>}
    ELSE LET shorter == DistinctSeqs(S, n - 1)
         IN shorter \cup {Append(p[1], p[2]) :
                            p \in {q \in shorter \X S : q[2] \notin Range(q[1])}}

----------------------------------------------------------------------------
(* Filenames, glob patterns and extensions, character by character *)

File_a_py  == <<"a", ".", "p", "y">>
File_b_py  == <<"b", ".", "p", "y">>
File_c_py  == <<"c", ".", "p", "y">>
File_d_b_js == <<"d", "/", "b", ".", "j", "s">>
File_c_PNG == <<"c", ".", "P", "N", "G">>
File_m     == <<"m">>
File_r_md  == <<"r", ".", "m", "d">>

Pat_py     == <<"*", ".", "p", "y">>
Pat_js     == <<"*", ".", "j", "s">>
Pat_md     == <<"*", ".", "m", "d">>
Pat_d_all  == <<"d", "/", "*">>
Pat_q_py   == <<"?", ".", "p", "y">>

Ext_png    == <<".", "p", "n", "g">>

\* fnmatch.fnmatch(name, pat): "*" matches any run of characters ("/" included),
\* "?" matches one character, any other character matches itself
RECURSIVE Fnmatch(_, _)
Fnmatch(name, pat) ==
    IF pat = <<>> THEN name = <<>>
    ELSE IF Head(pat) = "*"
         THEN \/ Fnmatch(name, Tail(pat))
              \/ name # <<>> /\ Fnmatch(Tail(name), pat)
    ELSE IF name = <<>> THEN FALSE
    ELSE /\ (Head(pat) = "?" \/ Head(pat) = Head(name))
         /\ Fnmatch(Tail(name), Tail(pat))

\* str.lower() on the characters the model uses
LowerChar(c) ==
    CASE c = "P" -> "p"
      [] c = "N" -> "n"
      [] c = "G" -> "g"
      [] OTHER   -> c

Lower(s) == [i \in 1..Len(s) |-> LowerChar(s[i])]

\* index of the last occurrence of c in s, 0 when absent
LastIndexOf(s, c) ==
    LET hits == {i \in 1..Len(s) : s[i] = c}
    IN IF hits = {} THEN 0 ELSE CHOOSE i \in hits : \A j \in hits : j <= i

\* Path(filename).name: the part after the last "/"
PathName(filename) == Drop(filename, LastIndexOf(filename, "/"))

\* Path(filename).suffix: from the last "." of the final component, when that
\* "." is neither its first nor its last character; otherwise empty
PathSuffix(filename) ==
    LET name == PathName(filename)
        i    == LastIndexOf(name, ".")
    IN IF 1 < i /\ i < Len(name) THEN Drop(name, i - 1) ELSE <<>>

----------------------------------------------------------------------------
(* Python floats (IEEE 754 binary64, round to nearest even) *)
\* A non-negative float is zero or m * 2^e with m a number of MantissaBits
\* bits whose first bit is 1; m is kept as the sequence of its bits, most
\* significant first.  Token counts and prices keep every value far from the
\* subnormal and the overflow range, so the exponent is not limited.

MantissaBits == 53

FloatZero == [m |-> <<>>, e |-> 0]

\* the bit of weight 2^k of a bit sequence
BitAt(bits, k) == IF k >= 0 /\ k < Len(bits) THEN bits[Len(bits) - k] ELSE 0

Zeros(n) == [i \in 1..n |-> 0]

RECURSIVE StripLeadingZeros(_)
StripLeadingZeros(bits) ==
    IF bits = <<>> \/ bits[1] = 1 THEN bits ELSE StripLeadingZeros(Tail(bits))

\* bits + 1
RECURSIVE Increment(_)
Increment(bits) ==
    IF bits = <<>> THEN <<1>>
    ELSE IF bits[Len(bits)] = 0 THEN SubSeq(bits, 1, Len(bits) - 1) \o <<1>>
    ELSE Increment(SubSeq(bits, 1, Len(bits) - 1)) \o <<0>>

\* the float nearest to bits * 2^e (+ something below the last bit if sticky),
\* ties to the even mantissa
RoundToFloat(bits, e, sticky) ==
    LET b == StripLeadingZeros(bits)
        n == Len(b)
    IN IF n = 0 THEN FloatZero
       ELSE IF n <= MantissaBits
            THEN [m |-> b \o Zeros(MantissaBits - n), e |-> e - (MantissaBits - n)]
       ELSE LET kept == SubSeq(b, 1, MantissaBits)
                guard == b[MantissaBits + 1]
                below == sticky \/ \E i \in (MantissaBits + 2)..n : b[i] = 1
                up == guard = 1 /\ (below \/ kept[MantissaBits] = 1)
                r == IF up THEN Increment(kept) ELSE kept
                drop == n - MantissaBits
            IN IF Len(r) > MantissaBits
               THEN [m |-> SubSeq(r, 1, MantissaBits), e |-> e + drop + 1]
               ELSE [m |-> r, e |-> e + drop]

RECURSIVE BitsOfInt(_)
BitsOfInt(n) == IF n = 0 THEN <<>> ELSE BitsOfInt(n \div 2) \o <<n % 2>>

\* float(n) of a non-negative int
FloatOfInt(n) == RoundToFloat(BitsOfInt(n), 0, FALSE)

\* carries and remainders are taken over this many bits at a time
ChunkBits == 8

RECURSIVE IntOfBits(_)
IntOfBits(bits) ==
    IF bits = <<>> THEN 0
    ELSE 2 * IntOfBits(SubSeq(bits, 1, Len(bits) - 1)) + bits[Len(bits)]

\* the bits of v, at least width of them
PadBits(v, width) ==
    LET b == BitsOfInt(v)
    IN IF Len(b) >= width THEN b ELSE Zeros(width - Len(b)) \o b

\* long division by a small positive int of a bit sequence whose length is a
\* multiple of ChunkBits: the quotient, as long as the dividend, and the remainder
RECURSIVE DivideBits(_, _, _, _)
DivideBits(bits, d, i, r) ==
    IF i > Len(bits) THEN [q |-> <<>>, r |-> r]
    ELSE LET cur == r * (2 ^ ChunkBits) + IntOfBits(SubSeq(bits, i, i + ChunkBits - 1))
             rest == DivideBits(bits, d, i + ChunkBits, cur % d)
         IN [q |-> PadBits(cur \div d, ChunkBits) \o rest.q, r |-> rest.r]

\* the quotient bits this many places below the dividend's last bit are kept,
\* enough for a full mantissa and a guard bit with divisors below 2^17, and
\* making the dividend a whole number of chunks
DivisionGuardBits == 19

\* x / d for a float x and a positive int d
FloatDivInt(x, d) ==
    IF x = FloatZero THEN FloatZero
    ELSE LET res == DivideBits(x.m \o Zeros(DivisionGuardBits), d, 1, 0)
         IN RoundToFloat(res.q, x.e - DivisionGuardBits, res.r # 0)

\* the float a decimal literal num/den denotes
FloatLiteral(num, den) == FloatDivInt(FloatOfInt(num), den)

\* the sum of the products of the bits of x and y that meet at weight 2^k
ProductColumn(x, y, k) ==
    Cardinality({i \in 0..(Len(x) - 1) : BitAt(x, i) = 1 /\ BitAt(y, k - i) = 1})

SumColumn(x, y, k) == BitAt(x, k) + BitAt(y, k)

\* column[k] + 2 * column[k + 1] + ... over the ChunkBits columns from k on
RECURSIVE ChunkOfColumns(_, _, _, _)
ChunkOfColumns(column, k, n, j) ==
    IF j >= ChunkBits \/ k + j >= n THEN 0
    ELSE column[k + j] + 2 * ChunkOfColumns(column, k, n, j + 1)

\* the bits of the number whose columns are column[0..n-1], carries propagated
RECURSIVE PropagateCarry(_, _, _, _)
PropagateCarry(column, k, n, carry) ==
    IF k >= n THEN BitsOfInt(carry)
    ELSE LET total == ChunkOfColumns(column, k, n, 0) + carry
         IN PropagateCarry(column, k + ChunkBits, n, total \div (2 ^ ChunkBits))
              \o PadBits(total % (2 ^ ChunkBits), ChunkBits)

\* x * y
FloatMul(x, y) ==
    IF x = FloatZero \/ y = FloatZero THEN FloatZero
    ELSE LET n == Len(x.m) + Len(y.m)
             column == [k \in 0..(n - 1) |-> ProductColumn(x.m, y.m, k)]
         IN RoundToFloat(PropagateCarry(column, 0, n, 0), x.e + y.e, FALSE)

\* x + y
FloatAdd(x, y) ==
    IF x = FloatZero THEN y
    ELSE IF y = FloatZero THEN x
    ELSE LET e == IF x.e < y.e THEN x.e ELSE y.e
             xs == x.m \o Zeros(x.e - e)
             ys == y.m \o Zeros(y.e - e)
             n == IF Len(xs) > Len(ys) THEN Len(xs) ELSE Len(ys)
             column == [k \in 0..(n - 1) |-> SumColumn(xs, ys, k)]
         IN RoundToFloat(PropagateCarry(column, 0, n, 0), e, FALSE)

\* int(x): the integer part of a float below 2^31
IntOfFloat(x) ==
    IF x = FloatZero THEN 0
    ELSE IF x.e >= 0 THEN IntOfBits(x.m \o Zeros(x.e))
    ELSE IF -x.e >= Len(x.m) THEN 0
    ELSE IntOfBits(SubSeq(x.m, 1, Len(x.m) + x.e))

----------------------------------------------------------------------------
(* Token counts and cost (bedrock/models.py, bedrock/client.py) *)

\* a price written with five decimals, as the catalog writes them
Price(hundred_thousandths) == FloatLiteral(hundred_thousandths, 100000)

ModelInfo(provider, input_cost_per_1k, output_cost_per_1k) ==
    [provider |-> provider,
     input_cost_per_1k |-> input_cost_per_1k,
     output_cost_per_1k |-> output_cost_per_1k]

\* ModelManager._initialize_models: provider and prices of each model
ModelCatalog ==
    "anthropic.claude-3-5-sonnet-20241022-v2:0"
        :> ModelInfo("anthropic", Price(300), Price(1500))
    @@ "anthropic.claude-3-haiku-20240307-v1:0"
        :> ModelInfo("anthropic", Price(25), Price(125))
    @@ "anthropic.claude-3-sonnet-20240229-v1:0"
        :> ModelInfo("anthropic", Price(300), Price(1500))
    @@ "meta.llama3-70b-instruct-v1:0" :> ModelInfo("meta", Price(265), Price(350))
    @@ "meta.llama3-8b-instruct-v1:0" :> ModelInfo("meta", Price(30), Price(60))
    @@ "cohere.command-r-plus-v1:0" :> ModelInfo("cohere", Price(300), Price(1500))
    @@ "cohere.command-r-v1:0" :> ModelInfo("cohere", Price(50), Price(150))
    @@ "ai21.jamba-instruct-v1:0" :> ModelInfo("ai21", Price(50), Price(70))

\* a model id the catalog does not hold
UnsupportedModel == "custom.model-v1:0"

ModelIds == DOMAIN ModelCatalog \cup {UnsupportedModel}

IsModelSupported(model_id) == model_id \in DOMAIN ModelCatalog

\* ModelManager.get_model_info, for a supported model
GetModelInfo(model_id) == ModelCatalog[model_id]

ProviderOf(model_id) ==
    IF IsModelSupported(model_id) THEN GetModelInfo(model_id).provider ELSE "none"

\* (input_tokens / 1000) * input_cost_per_1k + (output_tokens / 1000) * output_cost_per_1k
\* on token counts given as floats; an int count divides as the float of its value
CostFormula(info, input_tokens, output_tokens) ==
    FloatAdd(FloatMul(FloatDivInt(input_tokens, 1000), info.input_cost_per_1k),
             FloatMul(FloatDivInt(output_tokens, 1000), info.output_cost_per_1k))

\* BedrockClient._estimate_cost: a float, or the ValueError of get_model_info
EstimateCost(model_id, input_tokens, output_tokens) ==
    IF ~IsModelSupported(model_id) THEN [raised |-> "ValueError"]
    ELSE CostFormula(GetModelInfo(model_id), input_tokens, output_tokens)

\* ModelManager.get_cost_estimate
GetCostEstimate(model_id, input_tokens, output_tokens) ==
    IF ~IsModelSupported(model_id) THEN FloatZero
    ELSE CostFormula(GetModelInfo(model_id), input_tokens, output_tokens)

----------------------------------------------------------------------------
(* Parsing a model response: review/engine.py, _parse_review_response *)

\* a key the JSON object does not have
Missing == "<missing>"

\* an entry of the `issues` array that is not a JSON object
NotAnObject == [not_an_object |-> TRUE]

\* the list of line 285
ValidSeverities == {"error", "warning", "info", "suggestion"}

\* issue_data.get('severity', 'info') and the check of lines 285-286
CoerceSeverityToWarning(raw) ==
    LET severity == IF raw = Missing THEN "info" ELSE raw
    IN IF severity \notin ValidSeverities THEN "warning" ELSE severity

CoerceSeverity(raw) ==
    LET severity == IF raw = Missing THEN "info" ELSE raw
    IN IF severity \notin ValidSeverities THEN "info" ELSE severity

\* severity_levels of _meets_severity_threshold, .get(key, default) included
SeverityLevelFlat(severity, default) ==
    CASE severity = "suggestion" -> 2
      [] severity = "info"       -> 2
      [] severity = "warning"    -> 3
      [] severity = "error"      -> 4
      [] OTHER                   -> default

SeverityLevel(severity, default) ==
    CASE severity = "suggestion" -> 1
      [] severity = "info"       -> 2
      [] severity = "warning"    -> 3
      [] severity = "error"      -> 4
      [] OTHER                   -> default

\* ReviewEngine._meets_severity_threshold
MeetsSeverityThreshold(severity, threshold) ==
    SeverityLevel(severity, 2) >= SeverityLevel(threshold, 3)

\* the ReviewIssue built from one entry of the `issues` array (lines 275-286)
IssueOf(issue_data, filename) ==
    [rule      |-> IF issue_data.rule = Missing THEN "unknown" ELSE issue_data.rule,
     severity  |-> CoerceSeverity(issue_data.severity),
     line      |-> issue_data.line,
     message   |-> IF issue_data.message = Missing THEN "" ELSE issue_data.message,
     file_path |-> filename]

\* the loop of lines 273-294 over the first n entries: an entry that is not an
\* object raises inside the inner try and is skipped
RECURSIVE ParseIssues(_, _, _, _)
ParseIssues(items, n, filename, threshold) ==
    IF n = 0 THEN <<>>
    ELSE LET before == ParseIssues(items, n - 1, filename, threshold)
         IN IF items[n] = NotAnObject THEN before
            ELSE IF MeetsSeverityThreshold(IssueOf(items[n], filename).severity, threshold)
            THEN Append(before, IssueOf(items[n], filename))
            ELSE before

\* lines 296-299
LimitIssuesKeepLast(issues, max_issues) ==
    IF Len(issues) > max_issues THEN Drop(issues, Len(issues) - max_issues) ELSE issues

LimitIssues(issues, max_issues) ==
    IF Len(issues) > max_issues THEN Take(issues, max_issues) ELSE issues

\* sum(1 for issue in issues if issue.severity == severity)
CountSeverity(issues, severity) ==
    Cardinality({i \in 1..Len(issues) : issues[i].severity = severity})

\* an error result that counts a token
CreateErrorResultWithToken(filename, error_message) ==
    [filename |-> filename,
     issues |-> <<[rule |-> "system", severity |-> "error", line |-> 0,
                   message |-> <<"Review failed">> \o error_message,
                   file_path |-> filename]>>,
     summary |-> <<"Review failed">> \o error_message,
     total_issues |-> 1, error_count |-> 1, warning_count |-> 0, info_count |-> 0,
     suggestion_count |-> 0, tokens_used |-> 1, cost_estimate |-> FloatZero]

\* ReviewEngine._create_error_result
CreateErrorResult(filename, error_message) ==
    [filename |-> filename,
     issues |-> <<[rule |-> "system", severity |-> "error", line |-> 0,
                   message |-> <<"Review failed">> \o error_message,
                   file_path |-> filename]>>,
     summary |-> <<"Review failed">> \o error_message,
     total_issues |-> 1, error_count |-> 1, warning_count |-> 0, info_count |-> 0,
     suggestion_count |-> 0, tokens_used |-> 0, cost_estimate |-> FloatZero]

\* ReviewEngine._create_empty_file_result
CreateEmptyFileResult(filename) ==
    [filename |-> filename, issues |-> <<>>, summary |-> <<"No issues found">>,
     total_issues |-> 0, error_count |-> 0, warning_count |-> 0, info_count |-> 0,
     suggestion_count |-> 0, tokens_used |-> 0, cost_estimate |-> FloatZero]

\* str.rfind in the place of str.find
FirstIndexOfFromEnd(s, c) == LastIndexOf(s, c)

\* content.find(c) + 1: index of the first occurrence, 0 when absent
FirstIndexOf(s, c) ==
    LET hits == {i \in 1..Len(s) : s[i] = c}
    IN IF hits = {} THEN 0 ELSE CHOOSE i \in hits : \A j \in hits : i <= j

\* the response content is a sequence of tokens: a prose word, a brace, or the
\* members of a JSON object (has_issues: the object has the key `issues`;
\* issues_is_array: its value can be iterated; issues; summary)
Word == [tok |-> "w", members |-> NoResult]
Open == [tok |-> "{", members |-> NoResult]
Close == [tok |-> "}", members |-> NoResult]
Obj(members) == [tok |-> "members", members |-> members]

\* json.loads succeeds on "{" members "}" and on "{" "}"
JsonValid(json_content) ==
    \/ json_content = <<Open, Close>>
    \/ Len(json_content) = 3 /\ json_content[1] = Open /\ json_content[3] = Close
                             /\ json_content[2].tok = "members"

JsonLoads(json_content) ==
    IF Len(json_content) = 3 THEN json_content[2].members
    ELSE [has_issues |-> FALSE, issues_is_array |-> FALSE, issues |-> <<>>,
          summary |-> Missing]

\* the FileReviewResult of lines 296-318, from the parsed object
ResultOfParsedCountedBeforeLimit(filename, resp, parsed_response, threshold, max_issues) ==
    LET all == ParseIssues(parsed_response.issues, Len(parsed_response.issues),
                           filename, threshold)
        issues == LimitIssues(all, max_issues)
    IN [filename |-> filename,
        issues |-> issues,
        summary |-> IF parsed_response.summary = Missing
                    THEN <<"No summary provided">> ELSE <<parsed_response.summary>>,
        total_issues |-> Len(all),
        error_count |-> CountSeverity(all, "error"),
        warning_count |-> CountSeverity(all, "warning"),
        info_count |-> CountSeverity(all, "info"),
        suggestion_count |-> CountSeverity(all, "suggestion"),
        tokens_used |-> resp.input_tokens + resp.output_tokens,
        cost_estimate |-> resp.cost_estimate]

ResultOfParsed(filename, resp, parsed_response, threshold, max_issues) ==
    LET all == ParseIssues(parsed_response.issues, Len(parsed_response.issues),
                           filename, threshold)
        issues == LimitIssues(all, max_issues)
    IN [filename |-> filename,
        issues |-> issues,
        summary |-> IF parsed_response.summary = Missing
                    THEN <<"No summary provided">> ELSE <<parsed_response.summary>>,
        total_issues |-> Len(issues),
        error_count |-> CountSeverity(issues, "error"),
        warning_count |-> CountSeverity(issues, "warning"),
        info_count |-> CountSeverity(issues, "info"),
        suggestion_count |-> CountSeverity(issues, "suggestion"),
        tokens_used |-> resp.input_tokens + resp.output_tokens,
        cost_estimate |-> resp.cost_estimate]

\* _parse_review_response without the check of lines 268-269
ParseReviewResponseWithoutIssuesCheck(filename, resp, threshold, max_issues) ==
    LET content == resp.content
        json_start == FirstIndexOf(content, Open)
        json_end == LastIndexOf(content, Close)
        json_content == SubSeq(content, json_start, json_end)
    IN IF json_start = 0 \/ json_end = 0
       THEN CreateErrorResult(filename, <<"Invalid response format",
                                          "No JSON found in response">>)
       ELSE IF ~JsonValid(json_content)
       THEN CreateErrorResult(filename, <<"Invalid JSON response">>)
       ELSE ResultOfParsed(filename, resp, JsonLoads(json_content), threshold, max_issues)

\* ReviewEngine._parse_review_response
ParseReviewResponse(filename, resp, threshold, max_issues) ==
    LET content == resp.content
        json_start == FirstIndexOf(content, Open)
        json_end == LastIndexOf(content, Close)
        json_content == SubSeq(content, json_start, json_end)
    IN IF json_start = 0 \/ json_end = 0
       THEN CreateErrorResult(filename, <<"Invalid response format",
                                          "No JSON found in response">>)
       ELSE IF ~JsonValid(json_content)
       THEN CreateErrorResult(filename, <<"Invalid JSON response">>)
       ELSE IF ~JsonLoads(json_content).has_issues
       THEN CreateErrorResult(filename, <<"Invalid response format",
                                          "Response missing 'issues' field">>)
       ELSE IF ~JsonLoads(json_content).issues_is_array
       THEN CreateErrorResult(filename, <<"Parsing error">>)
       ELSE ResultOfParsed(filename, resp, JsonLoads(json_content), threshold, max_issues)

\* the entries a model may put in the `issues` array; `line` is filled in with the
\* entry's position in the array
IssueEntries ==
    [rule : {"style"}, severity : ValidSeverities \cup {"critical", Missing},
     message : {"m"}]
    \cup {[rule |-> Missing, severity |-> "error", message |-> Missing],
          [rule |-> "bogus", severity |-> "warning", message |-> "m"]}
    \cup {NotAnObject}

Numbered(entries) ==
    [i \in 1..Len(entries) |->
        IF entries[i] = NotAnObject THEN NotAnObject
        ELSE [rule |-> entries[i].rule, severity |-> entries[i].severity,
              line |-> i, message |-> entries[i].message]]

IssueArrays ==
    {Numbered(entries) : entries \in UNION {[1..n -> IssueEntries] : n \in 0..MaxIssues}}

Members(issues) ==
    [has_issues |-> TRUE, issues_is_array |-> TRUE, issues |-> issues, summary |-> "s"]

\* the model the engine's client is configured with (config.py, bedrock.model)
EngineModel == "anthropic.claude-3-5-sonnet-20241022-v2:0"

\* the cost_estimate of a response of that model with these token counts
ResponseCost(input_tokens, output_tokens) ==
    EstimateCost(EngineModel, FloatOfInt(input_tokens), FloatOfInt(output_tokens))

GoodCost == ResponseCost(3, 2)

ProseCost == ResponseCost(1, 1)

ResponseOf(content) ==
    [content |-> content, input_tokens |-> 3, output_tokens |-> 2,
     cost_estimate |-> GoodCost]

SampleIssues ==
    Numbered(<<[rule |-> "style", severity |-> "error", message |-> "m"],
               [rule |-> "style", severity |-> "suggestion", message |-> "m"]>>)

\* responses that are one JSON object, and responses of other shapes
ParseResponses ==
    {ResponseOf(<<Open, Obj(Members(issues)), Close>>) : issues \in IssueArrays}
    \cup {ResponseOf(content) : content \in
            {<<>>, <<Word>>, <<Word, Open>>, <<Close, Word>>, <<Open, Close>>,
             <<Open, Word, Close>>, <<Close, Open>>,
             <<Word, Open, Obj(Members(SampleIssues)), Close, Word>>,
             <<Open, Word, Close, Open, Obj(Members(SampleIssues)), Close>>,
             <<Word, Open, Obj(Members(SampleIssues)), Close, Word, Close>>,
             <<Close, Word, Open, Obj(Members(SampleIssues)), Close, Open, Word>>,
             <<Word, Open, Obj([Members(SampleIssues) EXCEPT !.has_issues = FALSE]),
               Close, Word>>,
             <<Open, Obj([Members(<<>>) EXCEPT !.has_issues = FALSE]), Close>>,
             <<Open, Obj([Members(<<>>) EXCEPT !.issues_is_array = FALSE]), Close>>,
             <<Open, Obj([Members(SampleIssues) EXCEPT !.summary = Missing]), Close>>}}

ReviewConfigIdle == severity_threshold = "warning" /\ max_issues_per_file = 0

ParseIdle == response = NoResult /\ parsed = NoResult

RulesIdle == rules_request = NoResult /\ resolved = NoResult /\ rules_calls = 0

ParseIdleCost == response_body = NoResult /\ model_response = NoResult

EstimateIdle == usage_a = NoResult /\ usage_b = NoResult /\ estimates = NoResult

CostIdle == client_model = "none" /\ ParseIdleCost /\ EstimateIdle

ClientIdle ==
    /\ retry_config = NoResult /\ attempt = 0 /\ attempt_log = <<>> /\ sleeps = <<>>
    /\ invoke_state = "idle" /\ invoke_outcome = NoResult

EngineIdle ==
    /\ review_config = NoResult /\ perf_config = NoResult /\ template_store = NoResult
    /\ model_behaviour = NoResult /\ template_cache = NoResult /\ pc = "idle"
    /\ file_results = <<>> /\ futures = <<>> /\ invoked = {} /\ result = NoResult

ParseInit ==
    /\ changes = <<[filename |-> File_a_py, lines_added |-> 1, lines_removed |-> 0]>>
    /\ response \in ParseResponses
    /\ severity_threshold \in ValidSeverities
    /\ max_issues_per_file \in 1..MaxIssues
    /\ parsed = NoResult
    /\ git_config = NoResult /\ analysis = NoResult
    /\ EngineIdle /\ ClientIdle /\ RulesIdle /\ CostIdle

ParseResponse ==
    /\ response # NoResult
    /\ parsed = NoResult
    /\ parsed' = ParseReviewResponse(changes[1].filename, response, severity_threshold,
                                     max_issues_per_file)
    /\ UNCHANGED <<changes, clientVars, rulesVars, costVars, triageVars, reviewConfigVars, response, engineEnvVars,
                   engineVars>>

ParseNext == ParseResponse

SpecParse == ParseInit /\ [][ParseNext]_vars

\* a result made by _create_error_result
IsErrorResult(r) == r.summary[1] = "Review failed"

\* the `issues` array of the JSON object in the response under parse
InputIssues ==
    LET content == response.content
        at == CHOOSE i \in 1..Len(content) : content[i].tok = "members"
    IN content[at].members.issues

\* the response was parsed into a result, not turned into an error result
ParsedIntoResult == parsed # NoResult /\ ~IsErrorResult(parsed)

\* the order of the severities: suggestion < info < warning < error
SeverityRank(severity) ==
    CASE severity = "suggestion" -> 1
      [] severity = "info"       -> 2
      [] severity = "warning"    -> 3
      [] severity = "error"      -> 4

\* the severity an entry of the `issues` array counts with
CoercedSeverityOf(issue_data) ==
    IF issue_data.severity \in ValidSeverities THEN issue_data.severity ELSE "info"

\* the positions of the entries that pass the configured threshold
PassingEntries ==
    {i \in 1..Len(InputIssues) :
        /\ InputIssues[i] # NotAnObject
        /\ SeverityRank(CoercedSeverityOf(InputIssues[i])) >= SeverityRank(severity_threshold)}

\* C7: an issue is retained only if its coerced severity is at or above the
\* configured threshold in the order suggestion < info < warning < error; with
\* threshold "warning" and one "suggestion" plus one "error" issue, only the
\* "error" issue is retained.
C7_RetainedOnlyAtOrAboveThreshold ==
    ParsedIntoResult =>
        /\ \A k \in 1..Len(parsed.issues) : parsed.issues[k].line \in PassingEntries
        /\ ( /\ severity_threshold = "warning"
             /\ Len(InputIssues) = 2
             /\ \A i \in 1..2 : InputIssues[i] # NotAnObject
             /\ {InputIssues[i].severity : i \in 1..2} = {"suggestion", "error"} )
           => /\ Len(parsed.issues) = 1
              /\ parsed.issues[1].severity = "error"

\* threshold "warning", the model returned a suggestion and an error
C7_Witness ==
    /\ ParsedIntoResult
    /\ severity_threshold = "warning"
    /\ Len(InputIssues) = 2
    /\ InputIssues[1] # NotAnObject /\ InputIssues[2] # NotAnObject
    /\ InputIssues[1].severity = "suggestion" /\ InputIssues[2].severity = "error"
    /\ Len(parsed.issues) = 1

\* C8: the issues of a parsed result are the first max_issues_per_file of the
\* threshold-passing entries, in the order the model returned them, so never
\* more than max_issues_per_file.
C8_FirstNPassingInOrder ==
    ParsedIntoResult =>
        LET kept == parsed.issues
            expected == Min(max_issues_per_file, Cardinality(PassingEntries))
        IN /\ Len(kept) <= max_issues_per_file
           /\ Len(kept) = expected
           /\ \A k \in 1..Len(kept) :
                /\ kept[k].line \in PassingEntries
                /\ Cardinality({i \in PassingEntries : i < kept[k].line}) = k - 1
                /\ kept[k].rule = IF InputIssues[kept[k].line].rule = Missing
                                  THEN "unknown" ELSE InputIssues[kept[k].line].rule

\* the first entry is below the threshold, the next two pass, and the cap of
\* one keeps the second entry only
C8_Witness ==
    /\ ParsedIntoResult
    /\ max_issues_per_file = 1
    /\ PassingEntries = {2, 3}
    /\ Len(parsed.issues) = 1
    /\ parsed.issues[1].line = 2

\* C9: a valid severity is kept unchanged, any other value (a missing one
\* included) becomes "info", and coercing the outcome again changes nothing.
C9_SeverityCoercionIdempotent ==
    ParsedIntoResult =>
        \A k \in 1..Len(parsed.issues) :
            LET raw == InputIssues[parsed.issues[k].line].severity
                coerced == parsed.issues[k].severity
            IN /\ coerced \in ValidSeverities
               /\ raw \in ValidSeverities => coerced = raw
               /\ raw \notin ValidSeverities => coerced = "info"
               /\ CoerceSeverity(coerced) = coerced

\* an out-of-range, a missing and a valid severity were coerced and retained
C9_Witness ==
    /\ ParsedIntoResult
    /\ Len(parsed.issues) = 3
    /\ InputIssues[1].severity = "critical" /\ parsed.issues[1].severity = "info"
    /\ InputIssues[2].severity = Missing /\ parsed.issues[2].severity = "info"
    /\ InputIssues[3].severity = "warning" /\ parsed.issues[3].severity = "warning"

\* the response text has no "{", or no "}", or the text from the first "{" to the
\* last "}" is not JSON, or the object it holds has no key `issues`
ResponseBreaksContract ==
    LET content == response.content
        opens == {i \in 1..Len(content) : content[i] = Open}
        closes == {i \in 1..Len(content) : content[i] = Close}
        first == CHOOSE i \in opens : \A j \in opens : i <= j
        last == CHOOSE i \in closes : \A j \in closes : j <= i
        text == SubSeq(content, first, last)
    IN \/ opens = {}
       \/ closes = {}
       \/ ~JsonValid(text)
       \/ ~JsonLoads(text).has_issues

\* C11: when the content holds no "{", or no "}", or the text from the first "{"
\* to the last "}" is not valid JSON, or the parsed object has no `issues` key,
\* _parse_review_response returns (it does not raise, so the run goes on to the
\* next file) a result with a single issue, rule "system" and severity "error",
\* whose message is "Review failed" followed by the failure.
C11_ContractBreachBecomesErrorResult ==
    (parsed # NoResult /\ ResponseBreaksContract) =>
        /\ Len(parsed.issues) = 1
        /\ parsed.issues[1].rule = "system"
        /\ parsed.issues[1].severity = "error"
        /\ Len(parsed.issues[1].message) > 1
        /\ parsed.issues[1].message[1] = "Review failed"
        /\ parsed.total_issues = 1 /\ parsed.error_count = 1
        /\ parsed.tokens_used = 0

\* prose around an object that lacks the key `issues`
C11_Witness ==
    /\ parsed # NoResult
    /\ Len(response.content) = 5
    /\ response.content[1] = Word
    /\ response.content[3].tok = "members"
    /\ ~response.content[3].members.has_issues
    /\ IsErrorResult(parsed)
    /\ parsed.issues[1].message[3] = "Response missing 'issues' field"

\* position i of the content starts a JSON object with an iterable `issues`
JsonObjectAt(i) ==
    LET content == response.content
    IN /\ i + 2 <= Len(content)
       /\ content[i] = Open
       /\ content[i + 1].tok = "members"
       /\ content[i + 2] = Close
       /\ content[i + 1].members.has_issues
       /\ content[i + 1].members.issues_is_array

\* the result holds the issues of the object of the response, after threshold
\* and cap, in order
HoldsIssuesOfObject ==
    /\ ParsedIntoResult
    /\ Len(parsed.issues) = Min(max_issues_per_file, Cardinality(PassingEntries))
    /\ \A k \in 1..Len(parsed.issues) :
         /\ parsed.issues[k].line \in PassingEntries
         /\ Cardinality({i \in PassingEntries : i < parsed.issues[k].line}) = k - 1
         /\ parsed.issues[k].severity = CoercedSeverityOf(InputIssues[parsed.issues[k].line])

\* C12 as stated: a JSON object with an `issues` array, preceded and followed by
\* any text at all, is extracted and the result holds exactly its issues.
C12_AnyProseAroundObject ==
    parsed # NoResult =>
        \A i \in 1..Len(response.content) : JsonObjectAt(i) => HoldsIssuesOfObject

\* C12, amended: a JSON object with an `issues` array, preceded by text that
\* holds no "{" and followed by text that holds no "}", is extracted and the
\* result holds exactly its issues (after threshold and cap), not an error.
C12_ProseWithoutBracesAroundObject ==
    parsed # NoResult =>
        \A i \in 1..Len(response.content) :
            ( /\ JsonObjectAt(i)
              /\ \A j \in 1..(i - 1) : response.content[j] # Open
              /\ \A j \in (i + 3)..Len(response.content) : response.content[j] # Close )
            => HoldsIssuesOfObject

\* "}" and prose before the object, "{" and prose after it: the error issue of
\* the sample passes every threshold
C12_Witness ==
    /\ ParsedIntoResult
    /\ Len(response.content) = 7
    /\ JsonObjectAt(3)
    /\ response.content[1] = Close /\ response.content[6] = Open
    /\ Len(parsed.issues) >= 1
    /\ parsed.issues[1].severity = "error"

----------------------------------------------------------------------------
(* Change triage: git/analyzer.py *)

\* ChangeAnalyzer._should_exclude_file
ShouldExcludeFile(filename, cfg) ==
    \E i \in 1..Len(cfg.exclude_patterns) : Fnmatch(filename, cfg.exclude_patterns[i])

\* ChangeAnalyzer._should_include_file
ShouldIncludeFile(filename, cfg) ==
    \/ cfg.include_patterns = <<>>
    \/ \E i \in 1..Len(cfg.include_patterns) : Fnmatch(filename, cfg.include_patterns[i])

\* ChangeAnalyzer._is_binary_file
IsBinaryFile(filename, cfg) ==
    Lower(PathSuffix(filename)) \in Range(cfg.binary_file_extensions)

ChangeSize(change) == change.lines_added + change.lines_removed

EmptyBuckets ==
    [filtered_changes |-> <<>>, excluded_files |-> <<>>, binary_files |-> <<>>,
     large_files |-> <<>>, total_lines_added |-> 0, total_lines_removed |-> 0]

\* one iteration of the filter loop of analyze_changes (lines 68-97)
FilterOne(acc, change, cfg) ==
    IF ShouldExcludeFile(change.filename, cfg)
    THEN [acc EXCEPT !.excluded_files = Append(@, change.filename)]
    ELSE IF cfg.include_patterns # <<>> /\ ~ShouldIncludeFile(change.filename, cfg)
    THEN [acc EXCEPT !.excluded_files = Append(@, change.filename)]
    ELSE IF IsBinaryFile(change.filename, cfg)
    THEN [acc EXCEPT !.binary_files = Append(@, change.filename)]
    ELSE IF ChangeSize(change) > cfg.max_diff_size
    THEN [acc EXCEPT !.large_files = Append(@, change.filename)]
    ELSE [acc EXCEPT !.filtered_changes = Append(@, change),
                     !.total_lines_added = @ + change.lines_added,
                     !.total_lines_removed = @ + change.lines_removed]

\* the filter loop over the first n entries of the change set
RECURSIVE FilterLoop(_, _, _)
FilterLoop(chs, n, cfg) ==
    IF n = 0 THEN EmptyBuckets
    ELSE FilterOne(FilterLoop(chs, n - 1, cfg), chs[n], cfg)

\* where sorted(..., reverse=True) puts x among the already sorted entries:
\* after every entry at least as large (the sort is stable)
InsertDescUnstable(sorted, x) ==
    LET before == {i \in 1..Len(sorted) : ChangeSize(sorted[i]) > ChangeSize(x)}
        k == Cardinality(before)
    IN Take(sorted, k) \o <<x>> \o Drop(sorted, k)

InsertDesc(sorted, x) ==
    LET before == {i \in 1..Len(sorted) : ChangeSize(sorted[i]) >= ChangeSize(x)}
        k == Cardinality(before)
    IN Take(sorted, k) \o <<x>> \o Drop(sorted, k)

\* sorted(filtered_changes.items(), key=size, reverse=True)
RECURSIVE SortedFiles(_)
SortedFiles(filtered) ==
    IF filtered = <<>> THEN <<>>
    ELSE InsertDesc(SortedFiles(Take(filtered, Len(filtered) - 1)),
                    filtered[Len(filtered)])

FileNamesOf(chs) == [i \in 1..Len(chs) |-> chs[i].filename]

\* excluded_files after the cap (line 112)
ExcludedNotExtended(excluded, sorted_files, max_files) == excluded

ExcludedAfterLimit(excluded, sorted_files, max_files) ==
    excluded \o FileNamesOf(Drop(sorted_files, max_files))

\* analyze_changes: the filter loop, then the max_files cap
AnalysisOf(chs, cfg) ==
    LET acc == FilterLoop(chs, Len(chs), cfg)
        over == Len(acc.filtered_changes) > cfg.max_files
        sorted_files == SortedFiles(acc.filtered_changes)
        filtered == IF over THEN Take(sorted_files, cfg.max_files)
                    ELSE acc.filtered_changes
    IN [filtered_changes    |-> filtered,
        excluded_files      |-> IF over
                                THEN ExcludedAfterLimit(acc.excluded_files, sorted_files,
                                                        cfg.max_files)
                                ELSE acc.excluded_files,
        binary_files        |-> acc.binary_files,
        large_files         |-> acc.large_files,
        total_lines_added   |-> acc.total_lines_added,
        total_lines_removed |-> acc.total_lines_removed,
        file_count          |-> Len(filtered)]

\* the inputs of the triage specification
TriageNames == {File_a_py, File_d_b_js, File_c_PNG, File_m}

LinesAdded == {0, 2}

LinesRemoved == {0, 1}

TriageChange == [filename : TriageNames, lines_added : LinesAdded,
                 lines_removed : LinesRemoved]

\* the change sets over the filenames `names`, in that order
ChangeSetsOver(names) ==
    {[i \in 1..Len(names) |-> [filename |-> names[i], lines_added |-> la[i],
                               lines_removed |-> lr[i]]] :
        la \in [1..Len(names) -> LinesAdded], lr \in [1..Len(names) -> LinesRemoved]}

\* a change set is a dict: no filename occurs twice
TriageChangeSets ==
    UNION {ChangeSetsOver(names) : names \in DistinctSeqs(TriageNames, MaxChanges)}

GitConfigs ==
    [exclude_patterns       : {<<>>, <<Pat_d_all>>},
     include_patterns       : {<<>>, <<Pat_py, Pat_js>>},
     binary_file_extensions : {<<>>, <<Ext_png>>},
     max_diff_size          : {2},
     max_files              : 0..MaxChanges]

TriageInit ==
    /\ changes \in TriageChangeSets
    /\ git_config \in GitConfigs
    /\ analysis = NoResult
    /\ ReviewConfigIdle /\ ParseIdle /\ EngineIdle /\ ClientIdle /\ RulesIdle /\ CostIdle

AnalyzeChanges ==
    /\ analysis = NoResult
    /\ analysis' = AnalysisOf(changes, git_config)
    /\ UNCHANGED <<changes, clientVars, rulesVars, costVars, git_config, reviewConfigVars, parseVars, engineEnvVars,
                   engineVars>>

TriageNext == AnalyzeChanges

SpecTriage == TriageInit /\ [][TriageNext]_vars

\* a file passes the four filters of analyze_changes
PassesFilters(change, cfg) ==
    /\ ~ShouldExcludeFile(change.filename, cfg)
    /\ cfg.include_patterns = <<>> \/ ShouldIncludeFile(change.filename, cfg)
    /\ ~IsBinaryFile(change.filename, cfg)
    /\ ChangeSize(change) <= cfg.max_diff_size

PassingIndexes == {i \in 1..Len(changes) : PassesFilters(changes[i], git_config)}

\* the position of a filename in the input change set
InputIndex(filename) == CHOOSE i \in 1..Len(changes) : changes[i].filename = filename

\* x comes before y in the claimed order: larger first, ties in input order
RanksBefore(x, y) ==
    \/ ChangeSize(x) > ChangeSize(y)
    \/ ChangeSize(x) = ChangeSize(y) /\ InputIndex(x.filename) < InputIndex(y.filename)

\* C1: after analyze_changes every input filename is in exactly one of the four
\* buckets, and the buckets hold no other filename (cap included).
C1_EveryFileInExactlyOneBucket ==
    analysis # NoResult =>
        LET buckets == FileNamesOf(analysis.filtered_changes) \o analysis.excluded_files
                         \o analysis.binary_files \o analysis.large_files
        IN /\ Len(buckets) = Len(changes)
           /\ Range(buckets) = Range(FileNamesOf(changes))
           /\ \A i, j \in 1..Len(buckets) : buckets[i] = buckets[j] => i = j

\* the cap moved a surviving file to excluded_files, next to a binary file
C1_Witness ==
    /\ analysis # NoResult
    /\ Cardinality(PassingIndexes) > git_config.max_files
    /\ analysis.binary_files # <<>>
    /\ \E i \in PassingIndexes : changes[i].filename \in Range(analysis.excluded_files)

\* C2: with M > max_files = N surviving files, filtered_changes holds exactly the
\* first N in the order "larger first, ties in input order", the other M - N are
\* in excluded_files; and always |filtered_changes| <= max_files.
C2_CapKeepsLargestInStableOrder ==
    analysis # NoResult =>
        LET kept == analysis.filtered_changes
            N == git_config.max_files
        IN /\ Len(kept) <= N
           /\ Cardinality(PassingIndexes) > N =>
                /\ Len(kept) = N
                /\ \A i \in 1..Len(kept) : InputIndex(kept[i].filename) \in PassingIndexes
                                             /\ kept[i] = changes[InputIndex(kept[i].filename)]
                /\ \A i, j \in 1..Len(kept) : i < j => RanksBefore(kept[i], kept[j])
                /\ \A p \in PassingIndexes :
                      changes[p].filename \notin Range(FileNamesOf(kept)) =>
                        /\ \A i \in 1..Len(kept) : RanksBefore(kept[i], changes[p])
                        /\ changes[p].filename \in Range(analysis.excluded_files)

\* three files survive, two of them tie in size, and the cap keeps two
C2_Witness ==
    /\ analysis # NoResult
    /\ Cardinality(PassingIndexes) = 3
    /\ git_config.max_files = 2
    /\ \E i, j \in PassingIndexes : i # j /\ ChangeSize(changes[i]) = ChangeSize(changes[j])
                                      /\ changes[i].filename \in Range(FileNamesOf(analysis.filtered_changes))
                                      /\ changes[j].filename \in Range(analysis.excluded_files)

----------------------------------------------------------------------------
(* Rule resolution: config/manager.py get_rule_templates, review/rules.py *)

\* a Python dict is a sequence of [key, value] entries in insertion order
DictKeys(d) == {d[i].key : i \in 1..Len(d)}

DictGet(d, key) == d[CHOOSE i \in 1..Len(d) : d[i].key = key].value

\* d.setdefault(key, value): an existing key keeps its value
DictSetKeepExisting(d, key, value) ==
    IF key \in DictKeys(d) THEN d ELSE Append(d, [key |-> key, value |-> value])

\* d[key] = value: an existing key keeps its place, a new key goes last
DictSet(d, key, value) ==
    IF key \in DictKeys(d)
    THEN [i \in 1..Len(d) |-> IF d[i].key = key THEN [key |-> key, value |-> value]
                                ELSE d[i]]
    ELSE Append(d, [key |-> key, value |-> value])

\* d.update(other), over the first n entries of other
RECURSIVE DictUpdate(_, _, _)
DictUpdate(d, other, n) ==
    IF n = 0 THEN d
    ELSE DictSet(DictUpdate(d, other, n - 1), other[n].key, other[n].value)

\* the templates of the patterns that match, in configuration order (lines 125-130)
RECURSIVE ApplicableTemplates(_, _, _)
ApplicableTemplates(rule_templates, n, filename) ==
    IF n = 0 THEN <<>>
    ELSE LET before == ApplicableTemplates(rule_templates, n - 1, filename)
         IN IF Fnmatch(filename, rule_templates[n].key)
            THEN before \o rule_templates[n].value
            ELSE before

\* duplicates removed, first occurrence kept (lines 133-138)
RECURSIVE UniqueTemplates(_)
UniqueTemplates(templates) ==
    IF templates = <<>> THEN <<>>
    ELSE LET before == UniqueTemplates(Take(templates, Len(templates) - 1))
             last == templates[Len(templates)]
         IN IF last \in Range(before) THEN before ELSE Append(before, last)

\* ConfigManager.get_rule_templates
GetRuleTemplates(filename, rule_templates) ==
    UniqueTemplates(ApplicableTemplates(rule_templates, Len(rule_templates), filename))

\* RuleProcessor._load_rule_template: a cache hit; a template found nowhere (or
\* unreadable at every location) gives {} and is not cached; a template whose
\* document is not a mapping raises; otherwise its rules are cached and returned
LoadRuleTemplate(template_name, cache, store) ==
    IF cache[template_name].cached
    THEN [raised |-> FALSE, rules |-> cache[template_name].rules, cache |-> cache]
    ELSE IF store[template_name].kind = "missing"
    THEN [raised |-> FALSE, rules |-> <<>>, cache |-> cache]
    ELSE IF store[template_name].kind = "not_a_mapping"
    THEN [raised |-> TRUE, rules |-> <<>>, cache |-> cache]
    ELSE [raised |-> FALSE, rules |-> store[template_name].rules,
          cache |-> [cache EXCEPT ![template_name] =
                        [cached |-> TRUE, rules |-> store[template_name].rules]]]

\* the template loop of load_rules_for_file (lines 49-57), first n templates
RECURSIVE MergeTemplates(_, _, _, _)
MergeTemplates(template_names, n, cache, store) ==
    IF n = 0 THEN [all_rules |-> <<>>, cache |-> cache]
    ELSE LET before == MergeTemplates(template_names, n - 1, cache, store)
             loaded == LoadRuleTemplate(template_names[n], before.cache, store)
         IN IF loaded.raised THEN before
            ELSE [all_rules |-> DictUpdate(before.all_rules, loaded.rules,
                                           Len(loaded.rules)),
                  cache |-> loaded.cache]

\* the override loop without the fnmatch test
RECURSIVE OverrideSettingsEveryPattern(_, _, _, _)
OverrideSettingsEveryPattern(settings, file_overrides, n, filename) ==
    IF n = 0 THEN settings
    ELSE DictUpdate(OverrideSettingsEveryPattern(settings, file_overrides, n - 1, filename),
                    file_overrides[n].value, Len(file_overrides[n].value))

\* the override loop of _apply_file_overrides (lines 132-135), first n entries
RECURSIVE OverrideSettings(_, _, _, _)
OverrideSettings(settings, file_overrides, n, filename) ==
    IF n = 0 THEN settings
    ELSE LET before == OverrideSettings(settings, file_overrides, n - 1, filename)
         IN IF Fnmatch(filename, file_overrides[n].key)
            THEN DictUpdate(before, file_overrides[n].value, Len(file_overrides[n].value))
            ELSE before

\* RuleProcessor._apply_file_overrides, for a rule definition that is a mapping
ApplyFileOverrides(rule_config, filename) ==
    [rule_config EXCEPT !.settings =
        OverrideSettings(rule_config.settings, rule_config.file_overrides,
                         Len(rule_config.file_overrides), filename)]

\* the enabled-rules loop without the test of line 62
RECURSIVE FilterRulesKeepAll(_, _, _, _)
FilterRulesKeepAll(all_rules, n, filename, enabled_rules) ==
    IF n = 0 THEN [raised |-> FALSE, rules |-> <<>>]
    ELSE LET before == FilterRulesKeepAll(all_rules, n - 1, filename, enabled_rules)
         IN IF before.raised THEN before
            ELSE IF all_rules[n].value.malformed THEN [raised |-> TRUE, rules |-> <<>>]
            ELSE [raised |-> FALSE,
                  rules |-> Append(before.rules,
                                   [key |-> all_rules[n].key,
                                    value |-> ApplyFileOverrides(all_rules[n].value,
                                                                 filename)])]

\* the enabled-rules loop of load_rules_for_file (lines 60-65), first n rules:
\* a rule definition that is not a mapping makes _apply_file_overrides raise
RECURSIVE FilterRules(_, _, _, _)
FilterRules(all_rules, n, filename, enabled_rules) ==
    IF n = 0 THEN [raised |-> FALSE, rules |-> <<>>]
    ELSE LET before == FilterRules(all_rules, n - 1, filename, enabled_rules)
         IN IF before.raised THEN before
            ELSE IF all_rules[n].key \notin enabled_rules THEN before
            ELSE IF all_rules[n].value.malformed THEN [raised |-> TRUE, rules |-> <<>>]
            ELSE [raised |-> FALSE,
                  rules |-> Append(before.rules,
                                   [key |-> all_rules[n].key,
                                    value |-> ApplyFileOverrides(all_rules[n].value,
                                                                 filename)])]

\* RuleProcessor.load_rules_for_file
LoadRulesForFile(filename, template_names, cache, store, enabled_rules) ==
    LET merged == MergeTemplates(template_names, Len(template_names), cache, store)
        filtered == FilterRules(merged.all_rules, Len(merged.all_rules), filename,
                                enabled_rules)
    IN [raised |-> filtered.raised, rules |-> filtered.rules, cache |-> merged.cache]

----------------------------------------------------------------------------
(* The review engine: review/engine.py *)

Returned(file_result, cache, was_invoked) ==
    [raised |-> FALSE, error |-> <<>>, result |-> file_result, cache |-> cache,
     invoked |-> was_invoked]

Raised(error, cache, was_invoked) ==
    [raised |-> TRUE, error |-> error, result |-> NoResult, cache |-> cache,
     invoked |-> was_invoked]

ReviewSingleFileWithoutRules(filename, cache) ==
    LET rule_templates == GetRuleTemplates(filename, review_config.rule_templates)
        loaded == LoadRulesForFile(filename, rule_templates, cache, template_store,
                                   review_config.enabled_rules)
        behaviour == DictGet(model_behaviour, filename)
    IN IF rule_templates = <<>>
       THEN Returned(CreateEmptyFileResult(filename), cache, FALSE)
       ELSE IF loaded.raised
       THEN Raised(<<"AttributeError">>, loaded.cache, FALSE)
       ELSE IF behaviour.fail # "none"
       THEN Raised(<<behaviour.fail>>, loaded.cache, TRUE)
       ELSE Returned(ParseReviewResponse(filename, behaviour.response,
                                         severity_threshold, max_issues_per_file),
                     loaded.cache, TRUE)

\* ReviewEngine._review_single_file: what it returns or raises, the template
\* cache it leaves, and whether it called invoke_model. invoke_model returns a
\* response or raises; the engine handles every exception class alike
ReviewSingleFile(filename, cache) ==
    LET rule_templates == GetRuleTemplates(filename, review_config.rule_templates)
        loaded == LoadRulesForFile(filename, rule_templates, cache, template_store,
                                   review_config.enabled_rules)
        behaviour == DictGet(model_behaviour, filename)
    IN IF rule_templates = <<>>
       THEN Returned(CreateEmptyFileResult(filename), cache, FALSE)
       ELSE IF loaded.raised
       THEN Raised(<<"AttributeError">>, loaded.cache, FALSE)
       ELSE IF loaded.rules = <<>>
       THEN Returned(CreateEmptyFileResult(filename), loaded.cache, FALSE)
       ELSE IF behaviour.fail # "none"
       THEN Raised(<<behaviour.fail>>, loaded.cache, TRUE)
       ELSE Returned(ParseReviewResponse(filename, behaviour.response,
                                         severity_threshold, max_issues_per_file),
                     loaded.cache, TRUE)

\* the try/except of _review_file_batch around one file (lines 128-133)
ReviewFileInBatchUnguarded(filename, cache) == ReviewSingleFile(filename, cache)

ReviewFileInBatch(filename, cache) ==
    LET outcome == ReviewSingleFile(filename, cache)
    IN IF outcome.raised
       THEN Returned(CreateErrorResult(filename, outcome.error), outcome.cache,
                     outcome.invoked)
       ELSE outcome

\* the try/except of _review_files_sequential around one file (lines 114-119)
ReviewFileSequentialUnguarded(filename, cache) == ReviewSingleFile(filename, cache)

ReviewFileSequential(filename, cache) ==
    LET outcome == ReviewSingleFile(filename, cache)
    IN IF outcome.raised
       THEN Returned(CreateErrorResult(filename, outcome.error), outcome.cache,
                     outcome.invoked)
       ELSE outcome

RECURSIVE SumSeq(_)
SumSeq(numbers) ==
    IF numbers = <<>> THEN 0 ELSE Head(numbers) + SumSeq(Tail(numbers))

\* sum(...) of floats: a fold from the left, the first term added to 0
RECURSIVE FloatSum(_)
FloatSum(numbers) ==
    IF numbers = <<>> THEN FloatZero
    ELSE FloatAdd(FloatSum(SubSeq(numbers, 1, Len(numbers) - 1)), numbers[Len(numbers)])

\* ReviewEngine._create_empty_result
CreateEmptyResult ==
    [files |-> <<>>, total_files |-> 0, total_issues |-> 0, total_errors |-> 0,
     total_warnings |-> 0, total_info |-> 0, total_suggestions |-> 0,
     total_tokens |-> 0, total_cost |-> FloatZero, summary |-> <<"No files to review">>]

\* ReviewEngine._aggregate_results
AggregateResultsErrorsFromIssues(results) ==
    LET n == Len(results)
        total_issues == SumSeq([i \in 1..n |-> results[i].value.total_issues])
    IN [files |-> results,
        total_files |-> n,
        total_issues |-> total_issues,
        total_errors |-> total_issues,
        total_warnings |-> SumSeq([i \in 1..n |-> results[i].value.warning_count]),
        total_info |-> SumSeq([i \in 1..n |-> results[i].value.info_count]),
        total_suggestions |-> SumSeq([i \in 1..n |-> results[i].value.suggestion_count]),
        total_tokens |-> SumSeq([i \in 1..n |-> results[i].value.tokens_used]),
        total_cost |-> FloatSum([i \in 1..n |-> results[i].value.cost_estimate]),
        summary |-> IF total_issues = 0 THEN <<"No issues found">> ELSE <<"Found issues">>]

AggregateResults(results) ==
    LET n == Len(results)
        total_issues == SumSeq([i \in 1..n |-> results[i].value.total_issues])
    IN [files |-> results,
        total_files |-> n,
        total_issues |-> total_issues,
        total_errors |-> SumSeq([i \in 1..n |-> results[i].value.error_count]),
        total_warnings |-> SumSeq([i \in 1..n |-> results[i].value.warning_count]),
        total_info |-> SumSeq([i \in 1..n |-> results[i].value.info_count]),
        total_suggestions |-> SumSeq([i \in 1..n |-> results[i].value.suggestion_count]),
        total_tokens |-> SumSeq([i \in 1..n |-> results[i].value.tokens_used]),
        total_cost |-> FloatSum([i \in 1..n |-> results[i].value.cost_estimate]),
        summary |-> IF total_issues = 0 THEN <<"No issues found">> ELSE <<"Found issues">>]

\* batching that leaves out a last batch of fewer than batch_size files
BatchesOfFullSizeOnly(names, batch_size) ==
    [k \in 1..(Len(names) \div batch_size) |->
        [filenames |-> SubSeq(names, (k - 1) * batch_size + 1, k * batch_size),
         state |-> "pending", results |-> <<>>, raised |-> FALSE, error |-> <<>>]]

\* the batches of _review_files_parallel (lines 87-91), as submitted futures
Batches(names, batch_size) ==
    [k \in 1..((Len(names) + batch_size - 1) \div batch_size) |->
        [filenames |-> SubSeq(names, (k - 1) * batch_size + 1,
                              Min(k * batch_size, Len(names))),
         state |-> "pending", results |-> <<>>, raised |-> FALSE, error |-> <<>>]]

\* the error results of lines 102-103 for the files of a failed batch
RECURSIVE BatchErrorResults(_, _, _)
BatchErrorResults(filenames, n, error) ==
    IF n = 0 THEN <<>>
    ELSE Append(BatchErrorResults(filenames, n - 1, error),
                [key |-> filenames[n], value |-> CreateErrorResult(filenames[n], error)])

\* review_changes without the early return of lines 62-63
ReviewNothingAggregated ==
    /\ pc = "start"
    /\ changes = <<>>
    /\ result' = AggregateResults(<<>>)
    /\ pc' = "done"
    /\ UNCHANGED <<changes, clientVars, rulesVars, costVars, triageVars, reviewConfigVars, parseVars, engineEnvVars,
                   template_cache, file_results, futures, invoked>>

\* review_changes on an empty change set (lines 62-63)
ReviewNothing ==
    /\ pc = "start"
    /\ changes = <<>>
    /\ result' = CreateEmptyResult
    /\ pc' = "done"
    /\ UNCHANGED <<changes, clientVars, rulesVars, costVars, triageVars, reviewConfigVars, parseVars, engineEnvVars,
                   template_cache, file_results, futures, invoked>>

\* review_changes choosing the parallel path and submitting the batches
StartParallel ==
    /\ pc = "start"
    /\ changes # <<>>
    /\ perf_config.parallel_processing /\ Len(changes) > 1
    /\ futures' = Batches(FileNamesOf(changes), review_config.batch_size)
    /\ pc' = "collect"
    /\ UNCHANGED <<changes, clientVars, rulesVars, costVars, triageVars, reviewConfigVars, parseVars, engineEnvVars,
                   template_cache, file_results, invoked, result>>

\* review_changes choosing the sequential path
StartSequential ==
    /\ pc = "start"
    /\ changes # <<>>
    /\ ~(perf_config.parallel_processing /\ Len(changes) > 1)
    /\ pc' = "sequential"
    /\ UNCHANGED <<changes, clientVars, rulesVars, costVars, triageVars, reviewConfigVars, parseVars, engineEnvVars,
                   template_cache, file_results, futures, invoked, result>>

\* one iteration of the loop of _review_files_sequential; after the last file
\* review_changes aggregates and returns
SequentialReviewFile ==
    /\ pc = "sequential"
    /\ LET filename == changes[Len(file_results) + 1].filename
           outcome == ReviewFileSequential(filename, template_cache)
           results == DictSet(file_results, filename, outcome.result)
       IN /\ template_cache' = outcome.cache
          /\ invoked' = IF outcome.invoked THEN invoked \cup {filename} ELSE invoked
          /\ IF outcome.raised
             THEN pc' = "raised" /\ UNCHANGED <<file_results, result>>
             ELSE /\ file_results' = results
                  /\ IF Len(results) = Len(changes)
                     THEN pc' = "done" /\ result' = AggregateResults(results)
                     ELSE pc' = "sequential" /\ UNCHANGED result
    /\ UNCHANGED <<changes, clientVars, rulesVars, costVars, triageVars, reviewConfigVars, parseVars, engineEnvVars,
                   futures>>

\* the batches a pool thread is working on, between two files or inside invoke_model
RunningBatches == {k \in 1..Len(futures) : futures[k].state \in {"running", "invoking"}}

\* a pool thread may take batch k: it is the oldest queued one and a thread is free
MayStart(k) ==
    /\ futures[k].state = "pending"
    /\ \A j \in 1..(k - 1) : futures[j].state # "pending"
    /\ Cardinality(RunningBatches) < perf_config.max_workers

\* a pool thread reviews the next file of batch k (_review_file_batch); an
\* exception that leaves the loop fails the future
ReviewNextInBatch(k) ==
    /\ pc = "collect"
    /\ futures[k].state = "running" \/ MayStart(k)
    /\ LET batch == futures[k]
           filename == batch.filenames[Len(batch.results) + 1]
           outcome == ReviewFileInBatch(filename, template_cache)
           results == DictSet(batch.results, filename, outcome.result)
       IN /\ template_cache' = outcome.cache
          /\ invoked' = IF outcome.invoked THEN invoked \cup {filename} ELSE invoked
          /\ futures' =
               IF outcome.raised
               THEN [futures EXCEPT ![k].state = "done", ![k].raised = TRUE,
                                    ![k].error = outcome.error]
               ELSE [futures EXCEPT ![k].results = results,
                                    ![k].state = IF Len(results) = Len(batch.filenames)
                                                 THEN "done" ELSE "running"]
    /\ UNCHANGED <<changes, clientVars, rulesVars, costVars, triageVars, reviewConfigVars, parseVars, engineEnvVars,
                   pc, file_results, result>>

\* the main thread takes a completed future (lines 94-103); after the last one
\* review_changes aggregates and returns
CollectBatch(k) ==
    /\ pc = "collect"
    /\ futures[k].state = "done"
    /\ LET batch == futures[k]
           batch_results == IF batch.raised
                            THEN BatchErrorResults(batch.filenames, Len(batch.filenames),
                                                   batch.error)
                            ELSE batch.results
           results == DictUpdate(file_results, batch_results, Len(batch_results))
       IN /\ file_results' = results
          /\ futures' = [futures EXCEPT ![k].state = "collected"]
          /\ IF \A j \in 1..Len(futures) : j # k => futures[j].state = "collected"
             THEN pc' = "done" /\ result' = AggregateResults(results)
             ELSE UNCHANGED <<pc, result>>
    /\ UNCHANGED <<changes, clientVars, rulesVars, costVars, triageVars, reviewConfigVars, parseVars, engineEnvVars,
                   template_cache, invoked>>

\* the inputs of the engine specification
EngineNames == {File_a_py, File_b_py, File_d_b_js, File_m, File_r_md}

EngineChangeSets ==
    {[i \in 1..Len(names) |-> [filename |-> names[i], lines_added |-> 1,
                               lines_removed |-> 0]] :
        names \in DistinctSeqs(EngineNames, MaxFiles)}

\* "*.py" and "?.py" both match a.py and both name `general`
EngineRuleTemplates ==
    <<[key |-> Pat_py, value |-> <<"python", "general">>],
      [key |-> Pat_q_py, value |-> <<"general">>],
      [key |-> Pat_js, value |-> <<"javascript">>],
      [key |-> Pat_md, value |-> <<"docs", "broken">>]>>

TemplateNames == {"python", "general", "javascript", "docs", "broken"}

RuleConfig(prompt) ==
    [malformed |-> FALSE, settings |-> <<[key |-> "prompt", value |-> prompt]>>,
     file_overrides |-> <<>>]

MalformedRule == [malformed |-> TRUE, settings |-> <<>>, file_overrides |-> <<>>]

\* python and general both define `style`; `legacy` is not enabled; javascript is
\* in no location; `broken` is not a mapping; the `style` of docs is not a mapping
EngineTemplateStore ==
    [name \in TemplateNames |->
        CASE name = "python" ->
               [kind |-> "rules",
                rules |-> <<[key |-> "style", value |-> RuleConfig("python style")],
                            [key |-> "legacy", value |-> RuleConfig("legacy")]>>]
          [] name = "general" ->
               [kind |-> "rules",
                rules |-> <<[key |-> "security", value |-> RuleConfig("security")],
                            [key |-> "style", value |-> RuleConfig("general style")]>>]
          [] name = "javascript" -> [kind |-> "missing", rules |-> <<>>]
          [] name = "broken" -> [kind |-> "not_a_mapping", rules |-> <<>>]
          [] name = "docs" ->
               [kind |-> "rules",
                rules |-> <<[key |-> "style", value |-> MalformedRule]>>]]

EmptyCache == [name \in TemplateNames |-> [cached |-> FALSE, rules |-> <<>>]]

\* three entries pass the default threshold, so the cap of two truncates; the
\* model is free in what it writes: one entry that is kept names no rule
GoodResponse ==
    ResponseOf(<<Open,
                 Obj(Members(Numbered(
                    <<[rule |-> "style", severity |-> "error", message |-> "m"],
                      [rule |-> "style", severity |-> "suggestion", message |-> "m"],
                      [rule |-> Missing, severity |-> "warning", message |-> "m"],
                      [rule |-> "style", severity |-> "error", message |-> "m"]>>))),
                 Close>>)

ProseResponse ==
    [content |-> <<Word>>, input_tokens |-> 1, output_tokens |-> 1,
     cost_estimate |-> ProseCost]

\* what invoke_model does: it returns a JSON or a prose response, or it raises
\* (a BedrockError once the retries are exhausted stands for every exception)
Behaviours ==
    {[fail |-> "none", response |-> GoodResponse],
     [fail |-> "none", response |-> ProseResponse],
     [fail |-> "BedrockError", response |-> GoodResponse]}

\* only the files that reach invoke_model get every behaviour
BehavioursFor(filename) ==
    IF Fnmatch(filename, Pat_py) THEN Behaviours
    ELSE {[fail |-> "none", response |-> GoodResponse]}

BehaviourMaps(chs) ==
    {[i \in 1..Len(chs) |-> [key |-> chs[i].filename, value |-> b[i]]] :
        b \in {c \in [1..Len(chs) -> Behaviours] :
                 \A i \in 1..Len(chs) : c[i] \in BehavioursFor(chs[i].filename)}}

Init ==
    /\ changes \in EngineChangeSets
    /\ review_config \in [enabled_rules : {{"style", "security"}},
                          rule_templates : {EngineRuleTemplates},
                          batch_size : 1..MaxBatchSize]
    /\ perf_config \in [parallel_processing : BOOLEAN, max_workers : 1..MaxWorkers]
    \* the sequential path reads neither batch_size nor max_workers
    /\ perf_config.parallel_processing
         \/ (perf_config.max_workers = 1 /\ review_config.batch_size = 1)
    /\ template_store = EngineTemplateStore
    /\ model_behaviour \in BehaviourMaps(changes)
    /\ severity_threshold = "warning"
    /\ max_issues_per_file = 2
    /\ template_cache = EmptyCache
    /\ pc = "start"
    /\ file_results = <<>>
    /\ futures = <<>>
    /\ invoked = {}
    /\ result = NoResult
    /\ git_config = NoResult /\ analysis = NoResult
    /\ ParseIdle /\ ClientIdle /\ RulesIdle /\ CostIdle

Next ==
    \/ ReviewNothing
    \/ StartParallel
    \/ StartSequential
    \/ SequentialReviewFile
    \/ \E k \in 1..Len(futures) : ReviewNextInBatch(k)
    \/ \E k \in 1..Len(futures) : CollectBatch(k)

Spec == Init /\ [][Next]_vars

\* every FileReviewResult the run holds: collected ones and those of the batches
ProducedResults ==
    Range(file_results) \cup UNION {Range(futures[k].results) : k \in 1..Len(futures)}

\* what reviewing the file on its own, with nothing cached, returns or raises
ReviewedAlone(filename) == ReviewSingleFile(filename, EmptyCache)

\* C3: no batch fails as a whole, and in the ReviewResult returned a file whose
\* review raises has exactly one issue, rule "system" and severity "error",
\* while every other file, in the same batch or another, has the result it gets
\* when reviewed on its own.
C3_FailureIsolatedToItsFile ==
    /\ \A k \in 1..Len(futures) : ~futures[k].raised
    /\ result # NoResult =>
         \A i \in 1..Len(result.files) :
            LET entry == result.files[i]
                alone == ReviewedAlone(entry.key)
            IN IF alone.raised
               THEN /\ Len(entry.value.issues) = 1
                    /\ entry.value.issues[1].rule = "system"
                    /\ entry.value.issues[1].severity = "error"
                    /\ entry.value.filename = entry.key
               ELSE entry.value = alone.result

\* a collected two-file batch: the model call of one file raised, the other file
\* holds its parsed issues
C3_Witness ==
    /\ pc = "done"
    /\ \E k \in 1..Len(futures) :
         /\ Len(futures[k].filenames) = 2
         /\ \E i, j \in 1..2 :
              /\ DictGet(model_behaviour, futures[k].filenames[i]).fail = "BedrockError"
              /\ IsErrorResult(DictGet(file_results, futures[k].filenames[i]))
              /\ DictGet(file_results, futures[k].filenames[j]).tokens_used > 0

\* review_changes has a next step to take: the guards of the actions
CanStep ==
    \/ pc = "start"
    \/ pc = "sequential" /\ Len(file_results) < Len(changes)
    \/ pc = "collect" /\ \E k \in 1..Len(futures) :
                            \/ futures[k].state \in {"running", "done"}
                            \/ MayStart(k)

\* C4: review_changes never raises and always returns a ReviewResult, whatever
\* rule resolution, model invocation or response parsing does for any file: it
\* is never in a raised state, it has returned a ReviewResult once done, and
\* until then it always has a step to take.
C4_ReviewChangesNeverRaises ==
    /\ pc # "raised"
    /\ pc = "done" => result # NoResult /\ Len(result.files) = Len(changes)
    /\ pc # "done" => result = NoResult /\ CanStep

\* the run returned although rule resolution raised for one file, the model
\* call of another exhausted its retries and the response of a third was prose
C4_Witness ==
    /\ pc = "done"
    /\ result # NoResult
    /\ \E i, j, k \in 1..Len(changes) :
         /\ DictGet(model_behaviour, changes[i].filename).fail = "BedrockError"
         /\ changes[i].filename \in invoked
         /\ DictGet(model_behaviour, changes[j].filename) =
              [fail |-> "none", response |-> ProseResponse]
         /\ changes[j].filename \in invoked
         /\ changes[k].filename = File_r_md

RECURSIVE SumUpTo(_, _)
SumUpTo(numbers, n) == IF n = 0 THEN 0 ELSE SumUpTo(numbers, n - 1) + numbers[n]

RECURSIVE FloatSumUpTo(_, _)
FloatSumUpTo(numbers, n) ==
    IF n = 0 THEN FloatZero ELSE FloatAdd(FloatSumUpTo(numbers, n - 1), numbers[n])

\* C5: in every ReviewResult returned (the empty-input one included) total_files
\* is the number of entries of files and every other total is the sum of the
\* corresponding field over the entries.
C5_TotalsAreSumsOverFiles ==
    result # NoResult =>
        LET n == Len(result.files)
            file(i) == result.files[i].value
        IN /\ result.total_files = n
           /\ result.total_issues = SumUpTo([i \in 1..n |-> file(i).total_issues], n)
           /\ result.total_errors = SumUpTo([i \in 1..n |-> file(i).error_count], n)
           /\ result.total_warnings = SumUpTo([i \in 1..n |-> file(i).warning_count], n)
           /\ result.total_info = SumUpTo([i \in 1..n |-> file(i).info_count], n)
           /\ result.total_suggestions
                = SumUpTo([i \in 1..n |-> file(i).suggestion_count], n)
           /\ result.total_tokens = SumUpTo([i \in 1..n |-> file(i).tokens_used], n)
           /\ result.total_cost = FloatSumUpTo([i \in 1..n |-> file(i).cost_estimate], n)

\* a result over three files: two parsed responses and an error result
C5_Witness ==
    /\ result # NoResult
    /\ result.total_files = 3
    /\ result.total_tokens = 10
    /\ result.total_errors = 3
    /\ result.total_warnings = 2

\* the number of issues of a list with a severity
IssuesWith(issues, severity) ==
    Cardinality({i \in 1..Len(issues) : issues[i].severity = severity})

\* C6: in every FileReviewResult (parsed, empty, error) each severity counter is
\* the number of issues with that severity and total_issues is both the length
\* of the issue list and the sum of the four counters.
C6_CountersMatchIssues ==
    \A entry \in ProducedResults :
        LET r == entry.value
        IN /\ r.error_count = IssuesWith(r.issues, "error")
           /\ r.warning_count = IssuesWith(r.issues, "warning")
           /\ r.info_count = IssuesWith(r.issues, "info")
           /\ r.suggestion_count = IssuesWith(r.issues, "suggestion")
           /\ r.total_issues = Len(r.issues)
           /\ r.total_issues = r.error_count + r.warning_count + r.info_count
                                 + r.suggestion_count

\* a run that holds a capped parsed result, an empty result and an error result
C6_Witness ==
    /\ pc = "done"
    /\ \E a, b, c \in Range(file_results) :
         /\ a.value.tokens_used > 0 /\ Len(a.value.issues) = max_issues_per_file
         /\ b.value.summary = <<"No issues found">>
         /\ IsErrorResult(c.value)

\* no pattern of rule_templates matches the filename
NoTemplateMatches(filename) ==
    \A i \in 1..Len(review_config.rule_templates) :
        ~Fnmatch(filename, review_config.rule_templates[i].key)

\* rule resolution for the filename ends with no rule
NoRuleResolved(filename) ==
    LET loaded == LoadRulesForFile(filename,
                                   GetRuleTemplates(filename, review_config.rule_templates),
                                   EmptyCache, template_store, review_config.enabled_rules)
    IN ~loaded.raised /\ loaded.rules = <<>>

\* C10: in the ReviewResult returned, a file no template pattern matches, or
\* whose resolved rule set is empty, has zero issues, zero tokens and zero cost,
\* and invoke_model was not called for it at any point of the run (the set of
\* files it was called for only grows).
C10_NoRulesNoModelCall ==
    result # NoResult =>
        \A i \in 1..Len(result.files) :
            LET entry == result.files[i]
            IN NoTemplateMatches(entry.key) \/ NoRuleResolved(entry.key)
                 => /\ entry.key \notin invoked
                    /\ entry.value.issues = <<>>
                    /\ entry.value.total_issues = 0
                    /\ entry.value.tokens_used = 0
                    /\ entry.value.cost_estimate = FloatZero

\* a finished run over a file no pattern matches, a file whose only template is
\* in no location, and a file the model was called for
C10_Witness ==
    /\ pc = "done"
    /\ File_m \in DictKeys(file_results) /\ NoTemplateMatches(File_m)
    /\ File_d_b_js \in DictKeys(file_results) /\ ~NoTemplateMatches(File_d_b_js)
    /\ NoRuleResolved(File_d_b_js)
    /\ invoked # {}

----------------------------------------------------------------------------
(* The model client: bedrock/client.py, invoke_model and _invoke_model_once *)

\* the error codes _invoke_model_once names (lines 162-169)
RetryableCodes ==
    {"ThrottlingException", "ValidationException", "ModelNotReadyException",
     "ServiceQuotaExceededException"}

\* what one call of the runtime client and the parsing of its body do: a body
\* that parses into a response, a ClientError with a code, a BotoCoreError, a
\* body that is not JSON, any other exception
RuntimeEvents ==
    [kind : {"body"}, code : {"first", "second"}]
    \cup [kind : {"ClientError"}, code : RetryableCodes \cup {"AccessDeniedException"}]
    \cup {[kind |-> "BotoCoreError", code |-> "ReadTimeoutError"],
          [kind |-> "JSONDecodeError", code |-> "body"],
          [kind |-> "Exception", code |-> "KeyError"]}

\* BedrockError(message, service_error), NetworkError(message), a BedrockResponse
BedrockError(message, service_error) ==
    [class |-> "BedrockError", message |-> message, service_error |-> service_error]

NetworkError(message) ==
    [class |-> "NetworkError", message |-> message, service_error |-> "None"]

ResponseOfBody(body) ==
    [class |-> "response", message |-> body, service_error |-> "None"]

\* BedrockClient._invoke_model_once: what it returns or raises
InvokeModelOnce(event) ==
    CASE event.kind = "body" -> ResponseOfBody(event.code)
      [] event.kind = "ClientError" ->
            CASE event.code = "ThrottlingException" ->
                    BedrockError("Rate limit exceeded", event.code)
              [] event.code = "ValidationException" ->
                    BedrockError("Invalid request", event.code)
              [] event.code = "ModelNotReadyException" ->
                    BedrockError("Model not ready", event.code)
              [] event.code = "ServiceQuotaExceededException" ->
                    BedrockError("Service quota exceeded", event.code)
              [] OTHER -> BedrockError("Bedrock API error", event.code)
      [] event.kind = "BotoCoreError" -> NetworkError("Network error calling Bedrock")
      [] event.kind = "JSONDecodeError" ->
            BedrockError("Failed to parse Bedrock response", "None")
      [] OTHER -> BedrockError("Unexpected error calling Bedrock", "None")

\* range(self.retry_attempts + 1)
LoopRange(retry_attempts) == 0..retry_attempts

\* a handler that catches every error of the package
IsRetriedAnyError(error) == error.class \in {"BedrockError", "NetworkError"}

\* `except BedrockError` of invoke_model: NetworkError is not a BedrockError
IsRetried(error) == error.class = "BedrockError"

\* the test one attempt too late
IsLastAttemptOffByOne(a, retry_attempts) == a = retry_attempts + 1

\* `if attempt == self.retry_attempts: raise`
IsLastAttempt(a, retry_attempts) == a = retry_attempts

\* a delay that grows by retry_delay each time
BackoffDelayLinear(retry_delay, a) == retry_delay * (a + 1)

\* self.retry_delay * (2 ** attempt)
BackoffDelay(retry_delay, a) == retry_delay * (2 ^ a)

\* one iteration of the loop of invoke_model with the outcome of its attempt:
\* the state the invocation is in afterwards, what it returned or raised, the
\* sleeps it made and the next value of the loop variable
InvokeIteration(cfg, a, outcome) ==
    IF outcome.class = "response"
    THEN [state |-> "returned", outcome |-> outcome, slept |-> <<>>, attempt |-> a]
    ELSE IF ~IsRetried(outcome) \/ IsLastAttempt(a, cfg.retry_attempts)
    THEN [state |-> "raised", outcome |-> outcome, slept |-> <<>>, attempt |-> a]
    ELSE IF a + 1 \in LoopRange(cfg.retry_attempts)
    THEN [state |-> "trying", outcome |-> NoResult,
          slept |-> <<BackoffDelay(cfg.retry_delay, a)>>, attempt |-> a + 1]
    ELSE [state |-> "raised",
          outcome |-> BedrockError("All retry attempts exhausted", "None"),
          slept |-> <<BackoffDelay(cfg.retry_delay, a)>>, attempt |-> a + 1]

\* the configurations the validator admits, retry_delay in units of its minimum
RetryConfigs == [retry_attempts : 0..MaxRetries, retry_delay : 1..MaxDelay]

InvokeInit ==
    /\ retry_config \in RetryConfigs
    /\ attempt = 0
    /\ attempt_log = <<>>
    /\ sleeps = <<>>
    /\ invoke_state = "trying"
    /\ invoke_outcome = NoResult
    /\ changes = <<>>
    /\ git_config = NoResult /\ analysis = NoResult
    /\ ReviewConfigIdle /\ ParseIdle /\ EngineIdle /\ RulesIdle /\ CostIdle

\* one iteration of the loop of invoke_model, whose attempt ends as `outcome`
Attempt(outcome) ==
    /\ invoke_state = "trying"
    /\ attempt \in LoopRange(retry_config.retry_attempts)
    /\ LET next == InvokeIteration(retry_config, attempt, outcome)
       IN /\ attempt_log' = Append(attempt_log, outcome)
          /\ sleeps' = sleeps \o next.slept
          /\ attempt' = next.attempt
          /\ invoke_state' = next.state
          /\ invoke_outcome' = next.outcome
    /\ UNCHANGED <<changes, triageVars, reviewConfigVars, parseVars, engineEnvVars,
                   engineVars, retry_config, rulesVars, costVars>>

\* the attempt returns a response
AttemptReturns ==
    \E event \in RuntimeEvents :
        /\ InvokeModelOnce(event).class = "response"
        /\ Attempt(InvokeModelOnce(event))

\* the attempt raises a BedrockError
AttemptRaisesBedrockError ==
    \E event \in RuntimeEvents :
        /\ InvokeModelOnce(event).class = "BedrockError"
        /\ Attempt(InvokeModelOnce(event))

\* the attempt raises a NetworkError
AttemptRaisesNetworkError ==
    \E event \in RuntimeEvents :
        /\ InvokeModelOnce(event).class = "NetworkError"
        /\ Attempt(InvokeModelOnce(event))

InvokeNext == AttemptReturns \/ AttemptRaisesBedrockError \/ AttemptRaisesNetworkError

SpecInvoke == InvokeInit /\ [][InvokeNext]_vars

\* the attempts that returned a response
Successes == {k \in 1..Len(attempt_log) : attempt_log[k].class = "response"}

\* a failure of the retry path named by the code of the service
IsRetryableFailure(outcome) ==
    outcome.class = "BedrockError" /\ outcome.service_error \in RetryableCodes

\* C13: with retry_attempts = R, invoke_model makes at most R + 1 attempts; it
\* returns exactly when an attempt succeeded, with the response of that attempt,
\* which is the last attempt made; when all R + 1 attempts failed with a
\* retryable failure it raised the failure of the last one; and while it is
\* still trying, an attempt remains.
C13_AtMostRPlusOneAttempts ==
    LET R == retry_config.retry_attempts
        n == Len(attempt_log)
    IN /\ n <= R + 1
       /\ Successes \subseteq {n}
       /\ Successes # {} => invoke_state = "returned" /\ invoke_outcome = attempt_log[n]
       /\ invoke_state = "returned" => Successes # {}
       /\ (n = R + 1 /\ \A k \in 1..n : IsRetryableFailure(attempt_log[k]))
            => invoke_state = "raised" /\ invoke_outcome = attempt_log[n]
       /\ invoke_state = "trying" => n <= R

\* two retries, three attempts that fail with different retryable failures: the
\* last one is raised
C13_Witness ==
    /\ retry_config.retry_attempts = 2
    /\ Len(attempt_log) = 3
    /\ attempt_log[1].service_error = "ThrottlingException"
    /\ attempt_log[2].service_error = "ModelNotReadyException"
    /\ attempt_log[3].service_error = "ServiceQuotaExceededException"
    /\ invoke_state = "raised"
    /\ invoke_outcome = attempt_log[3]

\* C14: an attempt that fails with a NetworkError is the last attempt:
\* invoke_model raises that NetworkError, sleeps no more after it, and leaves
\* the rest of the retry budget unused.
C14_NetworkErrorNotRetried ==
    \A k \in 1..Len(attempt_log) :
        attempt_log[k].class = "NetworkError"
          => /\ k = Len(attempt_log)
             /\ invoke_state = "raised"
             /\ invoke_outcome = attempt_log[k]
             /\ Len(sleeps) = k - 1

\* three retries allowed, the first attempt hits a network failure
C14_Witness ==
    /\ retry_config.retry_attempts = 3
    /\ Len(attempt_log) = 1
    /\ attempt_log[1].class = "NetworkError"
    /\ invoke_state = "raised"
    /\ sleeps = <<>>

\* C15: the sleeps of one invocation are retry_delay, 2 retry_delay,
\* 4 retry_delay, ..., one after each failed attempt that another attempt
\* follows: none after the final failed attempt, none after a success.
C15_ExponentialBackoff ==
    /\ Len(sleeps) = IF invoke_state = "trying"
                     THEN Len(attempt_log) ELSE Len(attempt_log) - 1
    /\ \A k \in 1..Len(sleeps) : sleeps[k] = retry_config.retry_delay * (2 ^ (k - 1))

\* four failed attempts with retry_delay 2: sleeps of 2, 4 and 8
C15_Witness ==
    /\ retry_config = [retry_attempts |-> 3, retry_delay |-> 2]
    /\ invoke_state = "raised"
    /\ Len(attempt_log) = 4
    /\ sleeps = <<2, 4, 8>>


----------------------------------------------------------------------------
(* Rule resolution on its own: review/rules.py, load_rules_for_file *)

\* a rule definition: its keys other than file_overrides, and its file_overrides
RuleDefinition(settings, file_overrides) ==
    [malformed |-> FALSE, settings |-> settings, file_overrides |-> file_overrides]

Setting(key, value) == [key |-> key, value |-> value]

\* python and general both define `style`, with different keys; the style of
\* python has overrides for "*.py", "?.py" and "*.js", in this order; the
\* `style` of docs is not a mapping; javascript is in no location; the document
\* of broken is not a mapping
RulesTemplateStore ==
    [name \in TemplateNames |->
        CASE name = "python" ->
               [kind |-> "rules",
                rules |->
                  <<Setting("style",
                      RuleDefinition(
                        <<Setting("origin", "python"), Setting("severity", "warning"),
                          Setting("prompt", "long")>>,
                        <<Setting(Pat_py, <<Setting("severity", "error")>>),
                          Setting(Pat_q_py, <<Setting("severity", "info"),
                                              Setting("prompt", "short")>>),
                          Setting(Pat_js, <<Setting("severity", "suggestion"),
                                            Setting("scope", "web")>>)>>)),
                    Setting("legacy",
                      RuleDefinition(<<Setting("origin", "python")>>, <<>>))>>]
          [] name = "general" ->
               [kind |-> "rules",
                rules |->
                  <<Setting("security",
                      RuleDefinition(
                        <<Setting("origin", "general"), Setting("severity", "error")>>,
                        <<Setting(Pat_js, <<Setting("severity", "warning")>>)>>)),
                    Setting("style",
                      RuleDefinition(
                        <<Setting("origin", "general"), Setting("prompt", "generic")>>,
                        <<>>))>>]
          [] name = "docs" ->
               [kind |-> "rules", rules |-> <<Setting("style", MalformedRule)>>]
          [] name = "javascript" -> [kind |-> "missing", rules |-> <<>>]
          [] name = "broken" -> [kind |-> "not_a_mapping", rules |-> <<>>]]

RulesFilenames == {File_a_py, File_d_b_js}

\* get_rule_templates hands over a list without duplicates
RulesTemplateLists == DistinctSeqs(TemplateNames, MaxTemplates)

RulesEnabledSets ==
    {{"style", "security"}, {"style", "security", "legacy"}, {"security"}, {}}

RulesInit ==
    /\ review_config \in [enabled_rules : RulesEnabledSets, rule_templates : {<<>>},
                          batch_size : {1}]
    /\ template_store = RulesTemplateStore
    /\ template_cache = EmptyCache
    /\ RulesIdle /\ CostIdle
    /\ changes = <<>>
    /\ git_config = NoResult /\ analysis = NoResult
    /\ ReviewConfigIdle /\ ParseIdle /\ ClientIdle
    /\ perf_config = NoResult /\ model_behaviour = NoResult /\ pc = "idle"
    /\ file_results = <<>> /\ futures = <<>> /\ invoked = {} /\ result = NoResult

\* one call of load_rules_for_file on the RuleProcessor
LoadRules ==
    /\ rules_calls < MaxCalls
    /\ \E filename \in RulesFilenames, template_names \in RulesTemplateLists :
         LET merged == MergeTemplates(template_names, Len(template_names),
                                      template_cache, template_store)
             loaded == LoadRulesForFile(filename, template_names, template_cache,
                                        template_store, review_config.enabled_rules)
         IN /\ rules_request' = [filename |-> filename, template_names |-> template_names]
            /\ resolved' = [raised |-> loaded.raised, rules |-> loaded.rules,
                            all_rules |-> merged.all_rules]
            /\ template_cache' = loaded.cache
    /\ rules_calls' = rules_calls + 1
    /\ UNCHANGED <<changes, triageVars, reviewConfigVars, parseVars, engineEnvVars,
                   pc, file_results, futures, invoked, result, clientVars, costVars>>

RulesNext == LoadRules

SpecRules == RulesInit /\ [][RulesNext]_vars


\* the rules a template of the store holds; a template that is missing, or
\* whose document is not a mapping, contributes nothing
RulesOfTemplate(name) ==
    IF template_store[name].kind = "rules" THEN template_store[name].rules ELSE <<>>

\* the positions of the requested list whose template defines the rule
Definers(rule_name) ==
    {p \in 1..Len(rules_request.template_names) :
        rule_name \in DictKeys(RulesOfTemplate(rules_request.template_names[p]))}

Largest(S) == CHOOSE p \in S : \A q \in S : q <= p

Smallest(S) == CHOOSE p \in S : \A q \in S : p <= q

\* the definition of the rule in the last template of the list that defines it
LastDefinition(rule_name) ==
    DictGet(RulesOfTemplate(rules_request.template_names[Largest(Definers(rule_name))]),
            rule_name)

RuleNames == {"style", "security", "legacy"}

\* C18: the merged rules are the rules some template of the list defines, each
\* once, in the order the list first defines them, and each with the whole
\* definition of the last template of the list that defines it; a returned rule
\* stems from that template.
C18_LaterTemplateReplacesRule ==
    resolved # NoResult =>
        LET all == resolved.all_rules
        IN /\ DictKeys(all) = {r \in RuleNames : Definers(r) # {}}
           /\ Len(all) = Cardinality(DictKeys(all))
           /\ \A i \in 1..Len(all) :
                /\ all[i].value = LastDefinition(all[i].key)
                /\ \A j \in (i + 1)..Len(all) :
                     Smallest(Definers(all[i].key)) <= Smallest(Definers(all[j].key))
           /\ ~resolved.raised =>
                \A i \in 1..Len(resolved.rules) :
                    DictGet(resolved.rules[i].value.settings, "origin")
                      = DictGet(LastDefinition(resolved.rules[i].key).settings, "origin")

\* python then general: `style` keeps its place before `security` and has the
\* definition of general, without the severity key of python
C18_Witness ==
    /\ resolved # NoResult /\ ~resolved.raised
    /\ rules_request.template_names = <<"python", "general">>
    /\ review_config.enabled_rules = {"style", "security"}
    /\ Len(resolved.rules) = 2
    /\ resolved.rules[1].key = "style"
    /\ DictGet(resolved.rules[1].value.settings, "origin") = "general"
    /\ "severity" \notin DictKeys(resolved.rules[1].value.settings)

\* C19: the rules returned are, in merge order, exactly the merged rules whose
\* name is in enabled_rules: none outside the set, none of the set left out.
C19_OnlyEnabledRulesReturned ==
    (resolved # NoResult /\ ~resolved.raised) =>
        LET all == resolved.all_rules
            kept == {i \in 1..Len(all) : all[i].key \in review_config.enabled_rules}
        IN /\ DictKeys(resolved.rules) \subseteq review_config.enabled_rules
           /\ Len(resolved.rules) = Cardinality(kept)
           /\ \A i \in kept :
                resolved.rules[Cardinality({j \in kept : j <= i})].key = all[i].key

\* `legacy` is merged but not enabled: `style` alone is returned
C19_Witness ==
    /\ resolved # NoResult /\ ~resolved.raised
    /\ rules_request.template_names = <<"python">>
    /\ review_config.enabled_rules = {"style", "security"}
    /\ DictKeys(resolved.all_rules) = {"style", "legacy"}
    /\ DictKeys(resolved.rules) = {"style"}

\* the file_overrides entries of a rule definition whose pattern matches
MatchingOverrides(definition, filename) ==
    {p \in 1..Len(definition.file_overrides) :
        Fnmatch(filename, definition.file_overrides[p].key)}

\* C20: a returned rule has the keys of its base definition and of every
\* file_overrides entry whose pattern matches the filename; a key has the value
\* of the last matching entry that sets it, else the value of the base
\* definition; entries that do not match change nothing.
C20_LastMatchingOverrideWins ==
    (resolved # NoResult /\ ~resolved.raised) =>
        \A i \in 1..Len(resolved.rules) :
            LET base == DictGet(resolved.all_rules, resolved.rules[i].key)
                final == resolved.rules[i].value
                matching == MatchingOverrides(base, rules_request.filename)
                setters(key) ==
                    {p \in matching : key \in DictKeys(base.file_overrides[p].value)}
            IN /\ DictKeys(final.settings)
                    = DictKeys(base.settings)
                        \cup UNION {DictKeys(base.file_overrides[p].value) : p \in matching}
               /\ Len(final.settings) = Cardinality(DictKeys(final.settings))
               /\ final.file_overrides = base.file_overrides
               /\ \A key \in DictKeys(final.settings) :
                    DictGet(final.settings, key)
                      = IF setters(key) = {}
                        THEN DictGet(base.settings, key)
                        ELSE DictGet(base.file_overrides[Largest(setters(key))].value, key)

\* a.py matches "*.py" and then "?.py" but not "*.js": the severity is that of
\* "?.py", the prompt too, and the key of the "*.js" entry is absent
C20_Witness ==
    /\ resolved # NoResult /\ ~resolved.raised
    /\ rules_request = [filename |-> File_a_py, template_names |-> <<"python">>]
    /\ Len(resolved.rules) >= 1
    /\ resolved.rules[1].key = "style"
    /\ DictGet(resolved.rules[1].value.settings, "severity") = "info"
    /\ DictGet(resolved.rules[1].value.settings, "prompt") = "short"
    /\ DictGet(resolved.rules[1].value.settings, "origin") = "python"
    /\ "scope" \notin DictKeys(resolved.rules[1].value.settings)


----------------------------------------------------------------------------
(* Token counts of a response (bedrock/client.py) *)

\* str.split() of a text of letters and blanks: the number of words
WordCount(text) ==
    Cardinality({i \in 1..Len(text) :
                    text[i] # " " /\ (i = 1 \/ text[i - 1] = " ")})

\* dict.get(key, default)
DictGetOr(d, key, default) == IF key \in DictKeys(d) THEN DictGet(d, key) ELSE default

BedrockResponse(content, model_id, input_tokens, output_tokens, stop_reason, cost_estimate) ==
    [content |-> content, model_id |-> model_id,
     input_tokens |-> input_tokens, output_tokens |-> output_tokens,
     stop_reason |-> stop_reason, cost_estimate |-> cost_estimate]

\* A response body is a dict.  The list under "content" (Anthropic) and the
\* message under "choices" (AI21) are kept as the text they hold.

\* BedrockClient._parse_anthropic_response
ParseAnthropicResponse(model_id, body) ==
    LET usage == DictGetOr(body, "usage", <<>>)
        input_tokens == DictGetOr(usage, "input_tokens", 0)
        output_tokens == DictGetOr(usage, "output_tokens", 0)
    IN BedrockResponse(DictGetOr(body, "content", <<>>), model_id,
                       input_tokens, output_tokens,
                       DictGetOr(body, "stop_reason", "unknown"),
                       EstimateCost(model_id, FloatOfInt(input_tokens),
                                    FloatOfInt(output_tokens)))

\* len(content.split()) * 1.3
EstimatedTokens(content) == FloatMul(FloatOfInt(WordCount(content)), FloatLiteral(13, 10))

\* BedrockClient._parse_llama_response
ParseLlamaResponse(model_id, body) ==
    LET content == DictGetOr(body, "generation", <<>>)
        output_tokens == EstimatedTokens(content)
    IN BedrockResponse(content, model_id, 0, IntOfFloat(output_tokens),
                       DictGetOr(body, "stop_reason", "unknown"),
                       EstimateCost(model_id, FloatOfInt(0), output_tokens))

\* BedrockClient._parse_cohere_response
ParseCohereResponse(model_id, body) ==
    LET content == DictGetOr(body, "text", <<>>)
        output_tokens == EstimatedTokens(content)
    IN BedrockResponse(content, model_id, 0, IntOfFloat(output_tokens), "complete",
                       EstimateCost(model_id, FloatOfInt(0), output_tokens))

\* BedrockClient._parse_ai21_response
ParseAi21Response(model_id, body) ==
    LET usage == DictGetOr(body, "usage", <<>>)
        input_tokens == DictGetOr(usage, "prompt_tokens", 0)
        output_tokens == DictGetOr(usage, "completion_tokens", 0)
    IN BedrockResponse(DictGetOr(body, "choices", <<>>), model_id,
                       input_tokens, output_tokens, "complete",
                       EstimateCost(model_id, FloatOfInt(input_tokens),
                                    FloatOfInt(output_tokens)))

----------------------------------------------------------------------------
(* Parsing a response body, and the cost function, on their own *)

\* nothing or one value: a key that may be absent
Optional(S) == {<<>>} \cup {<<v>> : v \in S}

Entry(key, optional) ==
    IF optional = <<>> THEN <<>> ELSE <<[key |-> key, value |-> optional[1]]>>

\* the texts of letters and blanks of at most n characters
RECURSIVE TextsUpTo(_)
TextsUpTo(n) ==
    IF n = 0 THEN {<<>>}
    ELSE LET shorter == TextsUpTo(n - 1)
         IN shorter \cup {Append(p[1], p[2]) : p \in shorter \X {"w", " "}}

ResponseTexts == TextsUpTo(MaxContent)

TokenCounts == 0..MaxTokens

UsageDicts(input_key, output_key) ==
    {Entry(input_key, p[1]) \o Entry(output_key, p[2]) :
        p \in Optional(TokenCounts) \X Optional(TokenCounts)}

BodyOf(text_key, text, usage, stop_reason) ==
    Entry(text_key, text) \o Entry("usage", usage) \o Entry("stop_reason", stop_reason)

BodiesWithUsage(text_key, input_key, output_key, stop_reasons) ==
    {BodyOf(text_key, p[1], p[2], p[3]) :
        p \in Optional(ResponseTexts) \X Optional(UsageDicts(input_key, output_key))
                \X stop_reasons}

BodiesWithoutUsage(text_key, stop_reasons) ==
    {BodyOf(text_key, p[1], <<>>, p[2]) : p \in Optional(ResponseTexts) \X stop_reasons}

\* the bodies the runtime hands back for a model of the provider
ResponseBodies(provider) ==
    CASE provider = "anthropic" ->
            BodiesWithUsage("content", "input_tokens", "output_tokens",
                            Optional({"end_turn"}))
      [] provider = "meta" -> BodiesWithoutUsage("generation", Optional({"stop"}))
      [] provider = "cohere" -> BodiesWithoutUsage("text", {<<>>})
      [] provider = "ai21" ->
            BodiesWithUsage("choices", "prompt_tokens", "completion_tokens", {<<>>})
      [] OTHER -> {<<>>}

ResponseInit ==
    /\ client_model \in ModelIds
    /\ response_body \in ResponseBodies(ProviderOf(client_model))
    /\ model_response = NoResult
    /\ EstimateIdle
    /\ changes = <<>>
    /\ git_config = NoResult /\ analysis = NoResult
    /\ ReviewConfigIdle /\ ParseIdle /\ EngineIdle /\ ClientIdle /\ RulesIdle

\* what parsing a response body leaves alone
responseFrame ==
    <<changes, triageVars, reviewConfigVars, parseVars, engineEnvVars, engineVars,
      clientVars, rulesVars, client_model, response_body, usage_a, usage_b, estimates>>

\* BedrockClient._parse_response: get_model_info, then the parser of the provider
ParseAnthropic ==
    /\ model_response = NoResult
    /\ ProviderOf(client_model) = "anthropic"
    /\ model_response' = ParseAnthropicResponse(client_model, response_body)
    /\ UNCHANGED responseFrame

ParseLlama ==
    /\ model_response = NoResult
    /\ ProviderOf(client_model) = "meta"
    /\ model_response' = ParseLlamaResponse(client_model, response_body)
    /\ UNCHANGED responseFrame

ParseCohere ==
    /\ model_response = NoResult
    /\ ProviderOf(client_model) = "cohere"
    /\ model_response' = ParseCohereResponse(client_model, response_body)
    /\ UNCHANGED responseFrame

ParseAi21 ==
    /\ model_response = NoResult
    /\ ProviderOf(client_model) = "ai21"
    /\ model_response' = ParseAi21Response(client_model, response_body)
    /\ UNCHANGED responseFrame

\* get_model_info raises ValueError for a model the catalog does not hold
ParseUnsupported ==
    /\ model_response = NoResult
    /\ ~IsModelSupported(client_model)
    /\ model_response' = [raised |-> "ValueError"]
    /\ UNCHANGED responseFrame

ResponseNext ==
    ParseAnthropic \/ ParseLlama \/ ParseCohere \/ ParseAi21 \/ ParseUnsupported

SpecResponse == ResponseInit /\ [][ResponseNext]_vars

Usages == [input_tokens : TokenCounts, output_tokens : TokenCounts]

CostInit ==
    /\ client_model \in ModelIds
    /\ usage_a \in Usages
    /\ usage_b \in Usages
    /\ estimates = NoResult
    /\ ParseIdleCost
    /\ changes = <<>>
    /\ git_config = NoResult /\ analysis = NoResult
    /\ ReviewConfigIdle /\ ParseIdle /\ EngineIdle /\ ClientIdle /\ RulesIdle

\* the cost function applied to the first usage, the second and their sum
EstimatesOf(function, usage) ==
    IF function = "_estimate_cost"
    THEN EstimateCost(client_model, FloatOfInt(usage.input_tokens),
                      FloatOfInt(usage.output_tokens))
    ELSE GetCostEstimate(client_model, FloatOfInt(usage.input_tokens),
                         FloatOfInt(usage.output_tokens))

UsageSum(a, b) ==
    [input_tokens |-> a.input_tokens + b.input_tokens,
     output_tokens |-> a.output_tokens + b.output_tokens]

ThreeEstimates(function) ==
    [function |-> function,
     a |-> EstimatesOf(function, usage_a),
     b |-> EstimatesOf(function, usage_b),
     both |-> EstimatesOf(function, UsageSum(usage_a, usage_b))]

\* what estimating a cost leaves alone
estimateFrame ==
    <<changes, triageVars, reviewConfigVars, parseVars, engineEnvVars, engineVars,
      clientVars, rulesVars, client_model, response_body, model_response,
      usage_a, usage_b>>

\* BedrockClient._estimate_cost
ClientEstimates ==
    /\ estimates = NoResult
    /\ estimates' = ThreeEstimates("_estimate_cost")
    /\ UNCHANGED estimateFrame

\* ModelManager.get_cost_estimate
ManagerEstimates ==
    /\ estimates = NoResult
    /\ estimates' = ThreeEstimates("get_cost_estimate")
    /\ UNCHANGED estimateFrame

CostNext == ClientEstimates \/ ManagerEstimates

SpecCost == CostInit /\ [][CostNext]_vars

\* the response is one the parser returned
Returned16 == model_response # NoResult /\ "raised" \notin DOMAIN model_response

\* C16: the cost_estimate of a returned response is the cost formula applied
\* to the input_tokens and output_tokens the response itself reports, at the
\* catalog prices of the configured model, for each of the four providers.
C16_CostFromReportedTokens ==
    Returned16 =>
        model_response.cost_estimate
          = CostFormula(GetModelInfo(model_response.model_id),
                        FloatOfInt(model_response.input_tokens),
                        FloatOfInt(model_response.output_tokens))

\* the estimates are floats: the model is one the catalog holds, or the
\* function is the one that answers 0.0 for any other model
Estimated17 == estimates # NoResult /\ "raised" \notin DOMAIN estimates.a

\* C17: for a fixed model, cost(a_in, a_out) + cost(b_in, b_out) equals
\* cost(a_in + b_in, a_out + b_out) for all non-negative token counts.
C17_CostIsAdditive ==
    Estimated17 => FloatAdd(estimates.a, estimates.b) = estimates.both


\* C21: load_rules_for_file never raises: a template found nowhere, a template
\* that fails to load, and a rule whose definition is malformed are skipped, and
\* the remaining enabled rules are returned.
C21_ResolutionNeverRaises ==
    resolved # NoResult =>
        /\ ~resolved.raised
        /\ DictKeys(resolved.rules)
             = {r \in DictKeys(resolved.all_rules) \cap review_config.enabled_rules :
                    ~DictGet(resolved.all_rules, r).malformed}


\* C22: total_lines_added and total_lines_removed of the AnalysisResult are
\* the sums over the files of its filtered_changes, also after the max-files
\* cap, and file_count is the number of those files.
C22_TotalsAreSumsOverFilteredChanges ==
    analysis # NoResult =>
        LET kept == analysis.filtered_changes
        IN /\ analysis.total_lines_added
                = SumSeq([i \in 1..Len(kept) |-> kept[i].lines_added])
           /\ analysis.total_lines_removed
                = SumSeq([i \in 1..Len(kept) |-> kept[i].lines_removed])
           /\ analysis.file_count = Len(kept)


\* C23: every ReviewIssue of the ReviewResult returned by review_changes has a
\* rule that is one of the enabled rule names or "system".
C23_IssueRulesAreEnabledOrSystem ==
    result # NoResult =>
        \A i \in 1..Len(result.files) :
            \A j \in 1..Len(result.files[i].value.issues) :
                result.files[i].value.issues[j].rule
                    \in review_config.enabled_rules \cup {"system"}



----------------------------------------------------------------------------
(* The engine over files that all reach the model *)

OrderNames == {File_a_py, File_b_py, File_c_py}

OrderChangeSets ==
    {[i \in 1..Len(names) |-> [filename |-> names[i], lines_added |-> 1,
                               lines_removed |-> 0]] :
        names \in DistinctSeqs(OrderNames, MaxFiles)}

\* the same review, answered with other token counts
VerboseResponse ==
    [GoodResponse EXCEPT !.input_tokens = 1, !.output_tokens = 3,
                         !.cost_estimate = ResponseCost(1, 3)]

\* every call returns a review; the calls differ in the tokens they used
OrderBehaviours ==
    {[fail |-> "none", response |-> GoodResponse],
     [fail |-> "none", response |-> VerboseResponse]}

OrderBehaviourMaps(chs) ==
    {[i \in 1..Len(chs) |-> [key |-> chs[i].filename, value |-> b[i]]] :
        b \in [1..Len(chs) -> OrderBehaviours]}

\* the initial state of the engine, over given change sets and, for each of
\* them, given behaviours of the model
EngineInitOver(change_sets, behaviour_maps) ==
    /\ changes \in change_sets
    /\ review_config \in [enabled_rules : {{"style", "security"}},
                          rule_templates : {EngineRuleTemplates},
                          batch_size : 1..MaxBatchSize]
    /\ perf_config \in [parallel_processing : BOOLEAN, max_workers : 1..MaxWorkers]
    /\ perf_config.parallel_processing
         \/ (perf_config.max_workers = 1 /\ review_config.batch_size = 1)
    /\ template_store = EngineTemplateStore
    /\ model_behaviour \in behaviour_maps[changes]
    /\ severity_threshold = "warning"
    /\ max_issues_per_file = 2
    /\ template_cache = EmptyCache
    /\ pc = "start"
    /\ file_results = <<>>
    /\ futures = <<>>
    /\ invoked = {}
    /\ result = NoResult
    /\ git_config = NoResult /\ analysis = NoResult
    /\ ParseIdle /\ ClientIdle /\ RulesIdle /\ CostIdle

OrderInit ==
    EngineInitOver(OrderChangeSets, [chs \in OrderChangeSets |-> OrderBehaviourMaps(chs)])

SpecOrder == OrderInit /\ [][Next]_vars

\* _review_files_sequential over the first n files of the change set
RECURSIVE SequentialRun(_)
SequentialRun(n) ==
    IF n = 0 THEN [results |-> <<>>, cache |-> EmptyCache]
    ELSE LET before == SequentialRun(n - 1)
             filename == changes[n].filename
             outcome == ReviewFileSequential(filename, before.cache)
         IN [results |-> DictSet(before.results, filename, outcome.result),
             cache |-> outcome.cache]

\* what review_changes returns for the change set with parallel_processing off
SequentialResult ==
    IF changes = <<>> THEN CreateEmptyResult
    ELSE AggregateResults(SequentialRun(Len(changes)).results)

\* a dict as a mapping: its entries without their order
AsMapping(d) == {<<d[i].key, d[i].value>> : i \in 1..Len(d)}

Totals(review_result) == [review_result EXCEPT !.files = <<>>]

\* C24: whatever the interleaving of the worker threads and the order in which
\* the batches complete, the ReviewResult returned equals the one the
\* sequential path returns for the same change set, model responses and
\* configuration: the same mapping from filename to file result and the same
\* totals.
C24_ParallelEqualsSequential ==
    result # NoResult =>
        /\ AsMapping(result.files) = AsMapping(SequentialResult.files)
        /\ Totals(result) = Totals(SequentialResult)


----------------------------------------------------------------------------
(* The engine with invoke_model as a call that takes time *)

\* _review_single_file reaches its invoke_model call (line 163) for the file
ReachesModel(filename) ==
    LET rule_templates == GetRuleTemplates(filename, review_config.rule_templates)
        loaded == LoadRulesForFile(filename, rule_templates, template_cache,
                                   template_store, review_config.enabled_rules)
    IN rule_templates # <<>> /\ ~loaded.raised /\ loaded.rules # <<>>

\* the template cache as load_rules_for_file leaves it (line 157)
CacheAfterRules(filename) ==
    LoadRulesForFile(filename,
                     GetRuleTemplates(filename, review_config.rule_templates),
                     template_cache, template_store, review_config.enabled_rules).cache

NextFileOfBatch(k) == futures[k].filenames[Len(futures[k].results) + 1]

\* a pool thread calls invoke_model for the next file of batch k
EnterInvocationUnbounded(k) ==
    /\ pc = "collect"
    /\ futures[k].state \in {"running", "pending"}
    /\ ReachesModel(NextFileOfBatch(k))
    /\ futures' = [futures EXCEPT ![k].state = "invoking"]
    /\ template_cache' = CacheAfterRules(NextFileOfBatch(k))
    /\ invoked' = invoked \cup {NextFileOfBatch(k)}
    /\ UNCHANGED <<changes, clientVars, rulesVars, costVars, triageVars, reviewConfigVars,
                   parseVars, engineEnvVars, pc, file_results, result>>

EnterInvocation(k) ==
    /\ pc = "collect"
    /\ futures[k].state = "running" \/ MayStart(k)
    /\ ReachesModel(NextFileOfBatch(k))
    /\ futures' = [futures EXCEPT ![k].state = "invoking"]
    /\ template_cache' = CacheAfterRules(NextFileOfBatch(k))
    /\ invoked' = invoked \cup {NextFileOfBatch(k)}
    /\ UNCHANGED <<changes, clientVars, rulesVars, costVars, triageVars, reviewConfigVars,
                   parseVars, engineEnvVars, pc, file_results, result>>

\* a pool thread finishes the review of the next file of batch k and stores
\* the file's result: invoke_model has returned or raised, or the file is one
\* that _review_single_file returns for before it calls the model
FinishFileInBatch(k) ==
    /\ pc = "collect"
    /\ \/ futures[k].state = "invoking"
       \/ /\ futures[k].state = "running" \/ MayStart(k)
          /\ ~ReachesModel(NextFileOfBatch(k))
    /\ LET batch == futures[k]
           filename == NextFileOfBatch(k)
           outcome == ReviewFileInBatch(filename, template_cache)
           results == DictSet(batch.results, filename, outcome.result)
       IN /\ template_cache' = outcome.cache
          /\ futures' = [futures EXCEPT ![k].results = results,
                                        ![k].state = IF Len(results) = Len(batch.filenames)
                                                     THEN "done" ELSE "running"]
    /\ UNCHANGED <<changes, clientVars, rulesVars, costVars, triageVars, reviewConfigVars,
                   parseVars, engineEnvVars, pc, file_results, result, invoked>>

\* the sequential loop calls invoke_model for its next file
EnterInvocationSequential ==
    /\ pc = "sequential"
    /\ LET filename == changes[Len(file_results) + 1].filename
       IN /\ ReachesModel(filename)
          /\ template_cache' = CacheAfterRules(filename)
          /\ invoked' = invoked \cup {filename}
    /\ pc' = "invoking"
    /\ UNCHANGED <<changes, clientVars, rulesVars, costVars, triageVars, reviewConfigVars,
                   parseVars, engineEnvVars, file_results, futures, result>>

\* the sequential loop finishes the review of its next file and stores the
\* file's result; after the last file review_changes aggregates and returns
FinishFileSequential ==
    /\ \/ pc = "invoking"
       \/ /\ pc = "sequential"
          /\ ~ReachesModel(changes[Len(file_results) + 1].filename)
    /\ LET filename == changes[Len(file_results) + 1].filename
           outcome == ReviewFileSequential(filename, template_cache)
           results == DictSet(file_results, filename, outcome.result)
       IN /\ template_cache' = outcome.cache
          /\ file_results' = results
          /\ IF Len(results) = Len(changes)
             THEN pc' = "done" /\ result' = AggregateResults(results)
             ELSE pc' = "sequential" /\ UNCHANGED result
    /\ UNCHANGED <<changes, clientVars, rulesVars, costVars, triageVars, reviewConfigVars,
                   parseVars, engineEnvVars, futures, invoked>>

FlightNames == {File_a_py, File_b_py, File_c_py, File_m}

FlightChangeSets ==
    {[i \in 1..Len(names) |-> [filename |-> names[i], lines_added |-> 1,
                               lines_removed |-> 0]] :
        names \in DistinctSeqs(FlightNames, MaxFiles)}

\* invoke_model returns the review or raises; what a returned response holds
\* does not change how long the call is in flight
FlightBehaviourMaps(chs) ==
    {b \in BehaviourMaps(chs) :
        \A i \in 1..Len(chs) : b[i].value.response = GoodResponse}

FlightInit ==
    EngineInitOver(FlightChangeSets, [chs \in FlightChangeSets |-> FlightBehaviourMaps(chs)])

FlightNext ==
    \/ ReviewNothing
    \/ StartParallel
    \/ StartSequential
    \/ EnterInvocationSequential
    \/ FinishFileSequential
    \/ \E k \in 1..Len(futures) : EnterInvocation(k)
    \/ \E k \in 1..Len(futures) : FinishFileInBatch(k)
    \/ \E k \in 1..Len(futures) : CollectBatch(k)

SpecFlight == FlightInit /\ [][FlightNext]_vars

\* the invoke_model calls that have started and not yet returned
InFlight ==
    Cardinality({k \in 1..Len(futures) : futures[k].state = "invoking"})
      + (IF pc = "invoking" THEN 1 ELSE 0)

\* C25: during a parallel review the number of model invocations in flight
\* never exceeds the configured worker count; in sequential mode at most one
\* invocation is in flight.
C25_InFlightAtMostWorkers ==
    /\ pc = "collect" => InFlight <= perf_config.max_workers
    /\ pc # "collect" => InFlight <= 1

\* every worker is inside invoke_model while a further batch waits for a thread
C25_Witness ==
    /\ pc = "collect"
    /\ perf_config.max_workers = MaxWorkers
    /\ InFlight = MaxWorkers
    /\ \E k \in 1..Len(futures) : futures[k].state = "pending"


----------------------------------------------------------------------------
(* The empty change set, the key set and the token counts of a result *)

\* C26: for an empty change set review_changes returns a ReviewResult with no
\* file entries, every total equal to zero and the summary "No files to
\* review", without resolving any rule and without invoking the model.
C26_EmptyChangeSetGivesZeroResult ==
    (changes = <<>> /\ result # NoResult) =>
        /\ result.files = <<>>
        /\ result.total_files = 0
        /\ result.total_issues = 0
        /\ result.total_errors = 0
        /\ result.total_warnings = 0
        /\ result.total_info = 0
        /\ result.total_suggestions = 0
        /\ result.total_tokens = 0
        /\ result.total_cost = FloatZero
        /\ result.summary = <<"No files to review">>
        /\ template_cache = EmptyCache
        /\ invoked = {}

\* review_changes has returned for an empty change set
C26_Witness == changes = <<>> /\ pc = "done" /\ result # NoResult


\* C27: no cross-file shared mutable state is written during a review: while
\* the files are reviewed, by the worker threads or by the sequential loop, the
\* Rule Resolver's template cache is only read.
C27_CacheOnlyReadDuringReview ==
    [][(pc \in {"sequential", "collect"}) => (template_cache' = template_cache)]_vars


----------------------------------------------------------------------------
(* The template cache under the operations of the RuleProcessor *)

cacheFrame ==
    <<changes, triageVars, reviewConfigVars, parseVars, review_config, perf_config,
      model_behaviour, pc, file_results, futures, invoked, result, clientVars, costVars>>

\* load_rules_for_file for a file whose only template is template_name; the
\* call reads the template's file unless the cache holds the template
LoadRulesOfTemplate ==
    /\ rules_calls < MaxCalls
    /\ \E template_name \in TemplateNames :
         LET merged == MergeTemplates(<<template_name>>, 1, template_cache, template_store)
             loaded == LoadRulesForFile(File_a_py, <<template_name>>, template_cache,
                                        template_store, review_config.enabled_rules)
         IN /\ rules_request' = [op |-> "load_rules_for_file",
                                 template_name |-> template_name]
            /\ resolved' = [raised |-> loaded.raised, rules |-> loaded.rules,
                            all_rules |-> merged.all_rules,
                            read_storage |-> ~template_cache[template_name].cached]
            /\ template_cache' = loaded.cache
    /\ rules_calls' = rules_calls + 1
    /\ UNCHANGED <<cacheFrame, template_store>>

\* RuleProcessor.validate_rule_template, for a template without file_patterns
ValidateRuleTemplate(template_data) ==
    /\ template_data.has_name
    /\ \A i \in 1..Len(template_data.rules) :
         LET rule_config == template_data.rules[i].value
         IN /\ ~rule_config.malformed
            /\ "prompt" \in DictKeys(rule_config.settings)
            /\ DictGetOr(rule_config.settings, "severity", "warning")
                 \in {"error", "warning", "info", "suggestion"}

\* the template_data arguments: a valid template and one without a name
TemplateDocuments ==
    {[has_name |-> TRUE,
      rules |-> <<Setting("style",
                          RuleDefinition(<<Setting("prompt", "created")>>, <<>>))>>],
     [has_name |-> FALSE, rules |-> <<>>]}

\* RuleProcessor.create_rule_template.  An invalid template raises; a failed
\* write returns False; otherwise the file is written under the home directory
\* and the cache entry of the name is deleted.  The new file is the one later
\* loads read when no location held the template, or when the file it replaced
\* was the first one found; a file in an earlier location keeps shadowing it.
CreateRuleTemplate ==
    /\ rules_calls < MaxCalls
    /\ \E template_name \in TemplateNames, template_data \in TemplateDocuments,
          written \in BOOLEAN, shadowed \in BOOLEAN :
         LET valid == ValidateRuleTemplate(template_data)
             created == [kind |-> "rules", rules |-> template_data.rules]
         IN /\ rules_request' = [op |-> "create_rule_template",
                                 template_name |-> template_name]
            /\ resolved' = [raised |-> ~valid, rules |-> <<>>, all_rules |-> <<>>,
                            read_storage |-> FALSE]
            /\ IF valid /\ written
               THEN /\ template_store' =
                         IF shadowed /\ template_store[template_name].kind # "missing"
                         THEN template_store
                         ELSE [template_store EXCEPT ![template_name] = created]
                    /\ template_cache' =
                         [template_cache EXCEPT ![template_name] =
                             [cached |-> FALSE, rules |-> <<>>]]
               ELSE UNCHANGED <<template_store, template_cache>>
    /\ rules_calls' = rules_calls + 1
    /\ UNCHANGED cacheFrame

\* RuleProcessor.clear_template_cache
ClearTemplateCache ==
    /\ rules_calls < MaxCalls
    /\ rules_request' = [op |-> "clear_template_cache", template_name |-> "none"]
    /\ resolved' = [raised |-> FALSE, rules |-> <<>>, all_rules |-> <<>>,
                    read_storage |-> FALSE]
    /\ template_cache' = EmptyCache
    /\ rules_calls' = rules_calls + 1
    /\ UNCHANGED <<cacheFrame, template_store>>

CacheNext ==
    \/ LoadRulesOfTemplate
    \/ CreateRuleTemplate
    \/ ClearTemplateCache

SpecCache == RulesInit /\ [][CacheNext]_vars

\* C28: once a template's rule set is in the template cache, every later load
\* of that template name returns the cached rule set without consulting
\* storage, after any sequence of resolver operations, until
\* clear_template_cache is called; cache entries are invalidated only by that
\* explicit clear.
C28_CachedUntilExplicitClear ==
    [][\A name \in TemplateNames :
          template_cache[name].cached =>
              /\ (rules_request'.op = "load_rules_for_file"
                    /\ rules_request'.template_name = name)
                   => (/\ resolved'.all_rules = template_cache[name].rules
                       /\ ~resolved'.read_storage)
              /\ (rules_request'.op # "clear_template_cache")
                   => (template_cache'[name] = template_cache[name])]_vars


\* C29: in both sequential and parallel mode, for every batch size, the files
\* map of the returned ReviewResult has exactly the key set of the input change
\* set: each input file is in exactly one batch of at most batch_size files, and
\* review_changes returns only after every submitted batch was collected, so no
\* file is missing, duplicated or added.
C29_ResultKeysAreInputKeys ==
    /\ pc = "collect" =>
         /\ \A k \in 1..Len(futures) :
              Len(futures[k].filenames) \in 1..review_config.batch_size
         /\ \A i \in 1..Len(changes) :
              Cardinality({k \in 1..Len(futures) :
                              changes[i].filename \in Range(futures[k].filenames)}) = 1
    /\ result # NoResult =>
         /\ \A k \in 1..Len(futures) : futures[k].state = "collected"
         /\ Len(result.files) = Len(changes)
         /\ {result.files[i].key : i \in 1..Len(result.files)}
              = {changes[i].filename : i \in 1..Len(changes)}

\* a parallel run over three files in batches of two has returned
C29_Witness ==
    /\ pc = "done"
    /\ Len(changes) = 3
    /\ review_config.batch_size = 2
    /\ Len(futures) = 2
    /\ Len(result.files) = 3

\* the model was called for the file and the file's result is not an error result
ParsedInto(entry) == entry.key \in invoked /\ ~IsErrorResult(entry.value)

\* C30: a file's tokens_used and cost_estimate are input_tokens + output_tokens
\* and the cost_estimate of the model response only when that response parsed
\* into a result; every other result, error results included, carries
\* tokens_used = 0 and cost_estimate = 0.0, also when a response was received
\* but failed validation and when invoke_model gave up after its attempts, so
\* the run totals count only successfully parsed responses.
C30_TokensOnlyFromParsedResponses ==
    result # NoResult =>
        LET n == Len(result.files)
            behaviour(i) == DictGet(model_behaviour, result.files[i].key)
            tokens(i) == behaviour(i).response.input_tokens
                           + behaviour(i).response.output_tokens
        IN /\ \A i \in 1..n :
                IF ParsedInto(result.files[i])
                THEN /\ behaviour(i).fail = "none"
                     /\ result.files[i].value.tokens_used = tokens(i)
                     /\ result.files[i].value.cost_estimate
                          = behaviour(i).response.cost_estimate
                ELSE /\ result.files[i].value.tokens_used = 0
                     /\ result.files[i].value.cost_estimate = FloatZero
           /\ result.total_tokens
                = SumUpTo([i \in 1..n |-> IF ParsedInto(result.files[i])
                                          THEN tokens(i) ELSE 0], n)

\* a run with a response that parsed, and an error result for a response that
\* was received but was prose or for a call that raised
C30_Witness ==
    /\ result # NoResult
    /\ \E i, j \in 1..Len(result.files) :
         /\ ParsedInto(result.files[i])
         /\ result.files[i].value.tokens_used = 5
         /\ result.files[j].key \in invoked
         /\ IsErrorResult(result.files[j].value)
         /\ result.total_tokens = 5

====
